---- MODULE Spec2Model ----
(***************************************************************************)
(* sentinel: a PAM module (src/pam/pam_sentinel.c) that asks a human to    *)
(* confirm a privilege escalation through a helper program                 *)
(* (src/helper/*.cpp) which it forks, drops to the calling user and reads  *)
(* one decision token from over a pipe.                                    *)
(*                                                                         *)
(* Specifications:                                                         *)
(*   Spec        pam_sm_authenticate and run_helper (parent and child),    *)
(*               with the helper program's event loop abstracted to the    *)
(*               event that ends it.                                       *)
(*   SpecChannel the parent half of run_helper reading from a child that   *)
(*               writes arbitrary bytes to the pipe.                       *)
(*   SpecDialog  the helper program without session lock: the ConfirmWindow*)
(*               handlers of window.cpp under a millisecond clock.         *)
(*   SpecDeadline the parent half of run_helper under a clock in seconds:  *)
(*               select with its timeout, against a child that writes,     *)
(*               exits or hangs.                                           *)
(*   SpecLock    the helper program with the session lock of               *)
(*               session_lock.cpp: lock(), the instance's signals, the     *)
(*               window on the first monitor, unlock and cleanup.          *)
(*   SpecKill    the helper with session lock and no countdown, together   *)
(*               with the waiting parent and its SIGKILL; weakly fair.     *)
(*   SpecLoop    SpecLock in a main loop that emits 'activate' again and   *)
(*               dispatches lock signals that were ready when the          *)
(*               application was told to quit.                             *)
(*   SpecFormat  format_message and the title, message and secondary       *)
(*               arguments run_helper builds from the policy's templates.  *)
(*   SpecHang    SpecChannel with the parent's steps weakly fair and the   *)
(*               child under no obligation to exit.                        *)
(*   SpecOptOut  a policy with timeout 0: the window without countdown and *)
(*               the parent's select under a clock in seconds.             *)
(*   SpecHelper  the helper on the lock path and on the plain-window path, *)
(*               with re-activation, late lock signals and an unlock by    *)
(*               the compositor.                                           *)
(***************************************************************************)
EXTENDS Integers, Sequences, FiniteSets, TLC

VARIABLES
  \* ---- orchestrator: pam_sm_authenticate / run_helper (parent) ----
  pc,          \* where the parent is
  ret,         \* value returned by pam_sm_authenticate, NoRet until it returns
  user,        \* PAM user name, NoUser when pam_get_user fails
  service,     \* PAM service name
  cfg,         \* confirm_config_t after load_config
  penv,        \* environment of the privileged process
  pcred,       \* credentials of the privileged process
  rundir,      \* /run/user/<uid> directories: uid -> entries or NoDir
  has_disp,    \* result of has_display(), "unknown" before the probe
  parent_fds,  \* pipe descriptors the parent holds open: subset of {"r","w"}
  sel,         \* return value of select(), NoSel before it returns
  nread,       \* return value of read(), NoRead before it returns
  result,      \* char result[16]: the bytes read
  \* ---- forked child up to execv ----
  child_pc,    \* where the child is; "none" before fork
  cenv,        \* environment of the child
  cred,        \* credentials of the child
  target_uid, target_gid, pw,
  calls,       \* identity-changing and exec calls the child made, in order
  child_stdout,\* what the child's fd 1 is: "inherited" or "pipe"
  exit_status, \* exit status of the child, NoStatus while alive
  killed,      \* the parent sent SIGKILL
  \* ---- decision channel ----
  pipe,        \* chunks written to the pipe's write end, in order
  \* ---- helper program: AppState (main.cpp) ----
  state_result,\* AppState.result
  params,      \* AppConfig.params: timeout (s) and min_display_time (ms)
  quit,        \* g_application_quit was called
  \* ---- helper program: ConfirmWindow (window.cpp) ----
  win,         \* the ConfirmWindow's fields, NoWin before confirm_window_new
  now,         \* the monotonic clock, in milliseconds
  next_tick,   \* when the 100 ms timeout source is due next
  \* ---- observation ----
  callbacks,   \* how many times the window invoked its result callback
  last_event,  \* the last step of the helper's event loop
  user_input,  \* a click, key press or close request was delivered
  sent_at,     \* <<t>>: the clock when the result callback was invoked
  \* ---- helper program: session lock (main.cpp, session_lock.cpp) ----
  use_session_lock, \* AppConfig.use_session_lock
  lock_supported,   \* what gtk_session_lock_is_supported() answers
  lock_state,       \* SessionLock::state_
  instance,         \* the GtkSessionLockInstance, NoInstance when instance_ is null
  comp_lock,        \* the compositor's side of the lock
  first_monitor,    \* AppState.first_monitor
  surfaces,         \* what each 'monitor' notification was answered with, in order
  unlocks,          \* calls of gtk_session_lock_instance_unlock
  state_path,       \* the values SessionLock::state_ has held, in order
  lock_calls,       \* calls of SessionLock::lock()
  acquired,         \* the 'locked' signal was handled
  held_at_print,    \* the compositor held the lock when main printed the token
  errlog            \* lines written to stderr

pamVars   == <<pc, ret, user, service, cfg, penv, pcred, rundir, has_disp,
               parent_fds, sel, nread, result>>
childVars == <<child_pc, cenv, cred, target_uid, target_gid, pw, calls,
               child_stdout, exit_status, killed>>
helperVars == <<state_result, params, quit>>
dlgVars   == <<win, now, next_tick, callbacks, last_event, user_input, sent_at>>
\* what SessionLock::unlock() and cleanup() write
unlockVars == <<lock_state, instance, comp_lock, unlocks, state_path>>
\* the rest of the session lock's state
lockRest  == <<use_session_lock, lock_supported, first_monitor, surfaces, acquired,
               held_at_print, errlog, lock_calls>>
lockVars  == <<unlockVars, lockRest>>
vars == <<pamVars, childVars, pipe, helperVars, dlgVars, lockVars>>

----------------------------------------------------------------------------
(* Values *)

Unset    == "<unset>"
NoUser   == "<no user>"
NoItem   == "<no item>"
NoDir    == <<"<no dir>">>
NoRet    == "<running>"
Absent   == "<absent>"

PAM_SUCCESS      == "PAM_SUCCESS"
PAM_AUTH_ERR     == "PAM_AUTH_ERR"
PAM_SYSTEM_ERR   == "PAM_SYSTEM_ERR"
PAM_USER_UNKNOWN == "PAM_USER_UNKNOWN"
PAM_IGNORE       == "PAM_IGNORE"

NL == "\n"
CR == "\r"
ALLOW_STR   == <<"A","L","L","O","W">>
DENY_STR    == <<"D","E","N","Y">>
TIMEOUT_STR == <<"T","I","M","E","O","U","T">>

\* enum class Result { Allow, Deny, Timeout }
Result == {"Allow", "Deny", "Timeout"}

\* sizeof(result) in run_helper
ResultBufSize == 16

SetMin(S) == CHOOSE x \in S : \A y \in S : x <= y

----------------------------------------------------------------------------
(* The system around the module: user database, runtime directories,       *)
(* environment, configuration file.                                        *)

\* /etc/passwd as getpwnam / getpwuid see it
Passwd == { [pw_name |-> "root",  pw_uid |-> 0,    pw_gid |-> 0,    pw_dir |-> "/root"],
            [pw_name |-> "alice", pw_uid |-> 1000, pw_gid |-> 1000, pw_dir |-> "/home/alice"] }

NoPw == [found |-> FALSE]

getpwnam(name) ==
  IF \E e \in Passwd : e.pw_name = name
  THEN LET e == CHOOSE e \in Passwd : e.pw_name = name
       IN  [found |-> TRUE, pw_name |-> e.pw_name, pw_uid |-> e.pw_uid,
            pw_gid |-> e.pw_gid, pw_dir |-> e.pw_dir]
  ELSE NoPw

getpwuid(uid) ==
  IF \E e \in Passwd : e.pw_uid = uid
  THEN LET e == CHOOSE e \in Passwd : e.pw_uid = uid
       IN  [found |-> TRUE, pw_name |-> e.pw_name, pw_uid |-> e.pw_uid,
            pw_gid |-> e.pw_gid, pw_dir |-> e.pw_dir]
  ELSE NoPw

\* atoi() on the strings the environment can hold
atoi(s) ==
  CASE s = "1000" -> 1000
    [] s = "4242" -> 4242
    [] s = "0"    -> 0
    [] OTHER      -> 0

\* uids that own a runtime directory entry in the model
AllUids == {0, 1000, 4242}

\* PAM user names: one with a passwd entry, one without, and pam_get_user failing
Users == {"alice", "ghost", NoUser}

\* (SUDO_UID, PKEXEC_UID) as the elevation tool leaves them
IdentityHints == { <<Unset, Unset>>, <<"1000", Unset>>, <<"4242", Unset>>,
                   <<Unset, "1000">>, <<Unset, "4242">>, <<"1000", "4242">> }

\* credentials of the process PAM runs in: a setuid-root tool started by
\* alice, or a tool started by root
ParentCreds == { [ruid |-> 1000, euid |-> 0, rgid |-> 1000, egid |-> 1000, groups |-> "alice"],
                 [ruid |-> 0,    euid |-> 0, rgid |-> 0,    egid |-> 0,    groups |-> "root"] }

\* directory listings of /run/user/<uid>, in readdir order
RunDirs == { [u \in AllUids |-> NoDir],
             [u \in AllUids |-> IF u = 1000 THEN <<"bus", "wayland-0.lock">> ELSE NoDir],
             [u \in AllUids |-> IF u = 1000 THEN <<"wayland-0.lock", "wayland-0">> ELSE NoDir] }

\* strncmp(d_name, "wayland-", 8) == 0
HasWaylandPrefix(name) == name \in {"wayland-0", "wayland-0.lock"}
\* strstr(d_name, ".lock") != NULL
ContainsLock(name) == name \in {"wayland-0.lock"}

\* snprintf(runtime_dir, ..., "/run/user/%d", uid)
RuntimeDirPath(uid) ==
  CASE uid = 0    -> "/run/user/0"
    [] uid = 1000 -> "/run/user/1000"
    [] uid = 4242 -> "/run/user/4242"

EnvNames == {"WAYLAND_DISPLAY", "XDG_RUNTIME_DIR", "SUDO_UID", "PKEXEC_UID",
             "HOME", "USER", "LOGNAME", "PATH"}

getenv(env, name) == env[name]
setenv(env, name, value) == [env EXCEPT ![name] = value]

\* Largest timeout, in seconds, a configuration file of the model sets
MaxTimeout == 2

\* contents of the configuration file: the keys of [general] and the
\* [services] line of the service; a key is <<>> when the file does not set
\* it and <<v>> when it does; a token of the services line is <<>> for
\* "default" and <<v>> for a value
ConfigFiles ==
  { [exists |-> FALSE],
    [exists |-> TRUE, enabled |-> <<>>, timeout |-> <<>>, headless_action |-> <<>>,
     min_display_time |-> <<>>, svc |-> [sudo |-> <<>>]],
    [exists |-> TRUE, enabled |-> <<"no">>, timeout |-> <<>>, headless_action |-> <<"allow">>,
     min_display_time |-> <<>>, svc |-> [sudo |-> <<>>]],
    [exists |-> TRUE, enabled |-> <<"yes">>, timeout |-> <<0>>, headless_action |-> <<"allow">>,
     min_display_time |-> <<0>>, svc |-> [sudo |-> <<>>]],
    [exists |-> TRUE, enabled |-> <<"true">>, timeout |-> <<1>>, headless_action |-> <<"deny">>,
     min_display_time |-> <<>>, svc |-> [sudo |-> << <<>>, <<MaxTimeout>> >>]],
    [exists |-> TRUE, enabled |-> <<"1">>, timeout |-> <<MaxTimeout>>,
     headless_action |-> <<"password">>,
     min_display_time |-> <<>>, svc |-> [sudo |-> << <<"no">> >>]] }

\* strcasecmp against "yes", "true", "1"
parse_bool(val) == val \in {"yes", "true", "1", "YES", "Yes", "TRUE", "True"}

\* cfg->timeout = 30 and cfg->min_display_time = 500 in load_config
DefaultTimeout == 30
DefaultMinDisplayTime == 500

NoCfg == [loaded |-> FALSE]

\* load_config: defaults, then [general], then the service's override
\* "enabled,timeout,randomize" where "default" keeps the general value
load_config(svc_name, file) ==
  LET d == [loaded |-> TRUE, enabled |-> TRUE, timeout |-> DefaultTimeout,
            min_display_time |-> DefaultMinDisplayTime,
            headless_action |-> "password", log_attempts |-> TRUE]
  IN IF ~file.exists THEN d
     ELSE
       LET g == [d EXCEPT
                  !.enabled = IF file.enabled = <<>> THEN @ ELSE parse_bool(file.enabled[1]),
                  !.timeout = IF file.timeout = <<>> THEN @ ELSE file.timeout[1],
                  !.min_display_time = IF file.min_display_time = <<>> THEN @
                                       ELSE file.min_display_time[1],
                  !.headless_action = IF file.headless_action = <<>> THEN @
                                      ELSE file.headless_action[1]]
           line == IF svc_name \in DOMAIN file.svc THEN file.svc[svc_name] ELSE <<>>
       IN IF line = <<>> THEN g
          ELSE [g EXCEPT
                 !.enabled = IF Len(line) >= 1 /\ line[1] # <<>>
                             THEN parse_bool(line[1][1]) ELSE @,
                 !.timeout = IF Len(line) >= 2 /\ line[2] # <<>>
                             THEN line[2][1] ELSE @]

----------------------------------------------------------------------------
(* pam_sentinel.c: display probe *)

\* find_wayland_display: the value returned and the environment it leaves
find_wayland_display(uid, env) ==
  IF getenv(env, "WAYLAND_DISPLAY") # Unset /\ getenv(env, "WAYLAND_DISPLAY") # ""
  THEN [found |-> TRUE, env |-> env]
  ELSE LET dir == rundir[uid] IN
       IF dir = NoDir THEN [found |-> FALSE, env |-> env]
       ELSE LET hits == { i \in 1..Len(dir) :
                            HasWaylandPrefix(dir[i]) /\ ~ContainsLock(dir[i]) }
            IN IF hits = {} THEN [found |-> FALSE, env |-> env]
               ELSE LET e1 == setenv(env, "WAYLAND_DISPLAY", dir[SetMin(hits)])
                        e2 == IF getenv(e1, "XDG_RUNTIME_DIR") = Unset
                              THEN setenv(e1, "XDG_RUNTIME_DIR", RuntimeDirPath(uid))
                              ELSE e1
                    IN [found |-> TRUE, env |-> e2]

has_display(uid, env) == find_wayland_display(uid, env)

----------------------------------------------------------------------------
(* window.hpp *)

\* to_string(Result)
to_string(r) ==
  CASE r = "Allow"   -> ALLOW_STR
    [] r = "Deny"    -> DENY_STR
    [] r = "Timeout" -> TIMEOUT_STR
    [] OTHER         -> DENY_STR

\* std::print in place of std::println: no newline
write_raw(s) == s

\* std::println("{}", s): one write of s and a newline
println(s) == s \o <<NL>>

----------------------------------------------------------------------------
(* The decision channel *)

RECURSIVE Concat(_)
Concat(chunks) == IF chunks = <<>> THEN <<>> ELSE Head(chunks) \o Concat(Tail(chunks))

\* bytes written to the pipe so far
PipeContent == Concat(pipe)

ChildAlive == child_pc \notin {"none", "exited", "reaped"}

\* some process still holds the write end
WriteEndOpen == "w" \in parent_fds \/ ChildAlive

\* strcspn(s, reject): length of the prefix of s with no byte of reject
strcspn(s, reject) ==
  LET hits == { i \in 1..Len(s) : s[i] \in reject }
  IN IF hits = {} THEN Len(s) ELSE SetMin(hits) - 1

\* ParseResult with the comparison against "ALLOW" replaced by a test that
\* the line is not "DENY"
ParseResultNotDeny(n, buf) ==
  IF n <= 0 THEN PAM_AUTH_ERR
  ELSE LET line == SubSeq(buf, 1, strcspn(buf, {NL, CR}))
       IN IF line # DENY_STR THEN PAM_SUCCESS ELSE PAM_AUTH_ERR

\* lines 485-504 of run_helper: the result for n bytes read into buf
ParseResult(n, buf) ==
  IF n <= 0 THEN PAM_AUTH_ERR
  ELSE LET line == SubSeq(buf, 1, strcspn(buf, {NL, CR}))
       IN IF line = ALLOW_STR THEN PAM_SUCCESS ELSE PAM_AUTH_ERR

----------------------------------------------------------------------------
(* pam_sentinel.c: pam_sm_authenticate, up to the call of run_helper *)

Return(v) == pc' = "returned" /\ ret' = v

\* HeadlessResult with strcmp's result used as a truth value
HeadlessResultInverted(action) ==
  IF action # "allow" THEN PAM_SUCCESS
  ELSE IF action # "deny" THEN PAM_AUTH_ERR
  ELSE PAM_IGNORE

\* the branch on cfg.headless_action taken when there is no display
HeadlessResult(action) ==
  IF action = "allow" THEN PAM_SUCCESS
  ELSE IF action = "deny" THEN PAM_AUTH_ERR
  ELSE PAM_IGNORE

\* pam_sm_authenticate without the test of cfg.enabled
pam_sm_authenticate_unconditional ==
  /\ pc = "start"
  /\ \E item \in {"sudo", NoItem}, file \in ConfigFiles :
       LET svc == IF item = NoItem THEN "unknown" ELSE item
           c   == load_config(svc, file)
           pwn == getpwnam(user)
           uid == IF pwn.found THEN pwn.pw_uid ELSE pcred.ruid
           hd  == has_display(uid, penv)
       IN IF user = NoUser
          THEN /\ Return(PAM_USER_UNKNOWN)
               /\ UNCHANGED <<service, cfg, penv, has_disp>>
          ELSE /\ service' = svc
               /\ cfg' = c
               /\ penv' = hd.env
               /\ has_disp' = IF hd.found THEN "yes" ELSE "no"
               /\ IF ~hd.found
                  THEN Return(HeadlessResult(c.headless_action))
                  ELSE pc' = "pipe" /\ ret' = ret
  /\ UNCHANGED <<user, pcred, rundir, parent_fds, sel, nread, result>>
  /\ UNCHANGED <<childVars, pipe, helperVars, dlgVars, lockVars>>

pam_sm_authenticate ==
  /\ pc = "start"
  /\ \E item \in {"sudo", NoItem}, file \in ConfigFiles :
       LET svc == IF item = NoItem THEN "unknown" ELSE item
           c   == load_config(svc, file)
           pwn == getpwnam(user)
           uid == IF pwn.found THEN pwn.pw_uid ELSE pcred.ruid
           hd  == has_display(uid, penv)
       IN IF user = NoUser
          THEN /\ Return(PAM_USER_UNKNOWN)
               /\ UNCHANGED <<service, cfg, penv, has_disp>>
          ELSE /\ service' = svc
               /\ cfg' = c
               /\ IF ~c.enabled
                  THEN /\ Return(PAM_IGNORE)
                       /\ UNCHANGED <<penv, has_disp>>
                  ELSE /\ penv' = hd.env
                       /\ has_disp' = IF hd.found THEN "yes" ELSE "no"
                       /\ IF ~hd.found
                          THEN Return(HeadlessResult(c.headless_action))
                          ELSE pc' = "pipe" /\ ret' = ret
  /\ UNCHANGED <<user, pcred, rundir, parent_fds, sel, nread, result>>
  /\ UNCHANGED <<childVars, pipe, helperVars, dlgVars, lockVars>>

----------------------------------------------------------------------------
(* pam_sentinel.c: run_helper, parent side *)

\* pipe(pipefd)
RunHelperPipe ==
  /\ pc = "pipe"
  /\ \E ok \in BOOLEAN :
       IF ok THEN parent_fds' = {"r", "w"} /\ pc' = "fork" /\ ret' = ret
             ELSE parent_fds' = parent_fds /\ Return(PAM_SYSTEM_ERR)
  /\ UNCHANGED <<user, service, cfg, penv, pcred, rundir, has_disp, sel, nread, result>>
  /\ UNCHANGED <<childVars, pipe, helperVars, dlgVars, lockVars>>

\* RunHelperFork without the two close() calls of the failure branch
RunHelperForkLeak ==
  /\ pc = "fork"
  /\ \E ok \in BOOLEAN :
       IF ok
       THEN /\ child_pc' = "resolve"
            /\ cenv' = penv
            /\ cred' = pcred
            /\ parent_fds' = parent_fds \ {"w"}
            /\ pc' = "select" /\ ret' = ret
       ELSE /\ parent_fds' = parent_fds
            /\ Return(PAM_SYSTEM_ERR)
            /\ UNCHANGED <<child_pc, cenv, cred>>
  /\ UNCHANGED <<user, service, cfg, penv, pcred, rundir, has_disp, sel, nread, result>>
  /\ UNCHANGED <<target_uid, target_gid, pw, calls, child_stdout, exit_status, killed>>
  /\ UNCHANGED <<pipe, helperVars, dlgVars, lockVars>>

\* fork(), and in the parent close(pipefd[1])
RunHelperFork ==
  /\ pc = "fork"
  /\ \E ok \in BOOLEAN :
       IF ok
       THEN /\ child_pc' = "resolve"
            /\ cenv' = penv
            /\ cred' = pcred
            /\ parent_fds' = parent_fds \ {"w"}
            /\ pc' = "select" /\ ret' = ret
       ELSE /\ parent_fds' = {}
            /\ Return(PAM_SYSTEM_ERR)
            /\ UNCHANGED <<child_pc, cenv, cred>>
  /\ UNCHANGED <<user, service, cfg, penv, pcred, rundir, has_disp, sel, nread, result>>
  /\ UNCHANGED <<target_uid, target_gid, pw, calls, child_stdout, exit_status, killed>>
  /\ UNCHANGED <<pipe, helperVars, dlgVars, lockVars>>

\* select() on the read end with the deadline cfg.timeout + 5: returns 1
\* when there is data or end of file, 0 when the deadline passes with
\* neither, -1 on error
RunHelperSelect ==
  /\ pc = "select"
  /\ \E v \in {1, 0, -1} :
       /\ v = 1 => (PipeContent # <<>> \/ ~WriteEndOpen)
       /\ v = 0 => (PipeContent = <<>> /\ WriteEndOpen)
       /\ sel' = <<v>>
       /\ pc' = IF v <= 0 THEN "kill" ELSE "read"
  /\ UNCHANGED <<ret, user, service, cfg, penv, pcred, rundir, has_disp, parent_fds,
                 nread, result>>
  /\ UNCHANGED <<childVars, pipe, helperVars, dlgVars, lockVars>>

\* RunHelperKill without kill(pid, SIGKILL): waitpid alone, which returns
\* when the child has exited by itself
RunHelperKillNoSignal ==
  /\ pc = "kill"
  /\ child_pc = "exited"
  /\ killed' = killed
  /\ exit_status' = exit_status
  /\ child_pc' = "reaped"
  /\ parent_fds' = parent_fds \ {"r"}
  /\ Return(PAM_AUTH_ERR)
  /\ UNCHANGED <<user, service, cfg, penv, pcred, rundir, has_disp, sel, nread, result>>
  /\ UNCHANGED <<cenv, cred, target_uid, target_gid, pw, calls, child_stdout>>
  /\ UNCHANGED <<pipe, helperVars, dlgVars, lockVars>>

\* sel <= 0: kill(pid, SIGKILL); waitpid; close(pipefd[0]); return PAM_AUTH_ERR
RunHelperKill ==
  /\ pc = "kill"
  /\ killed' = TRUE
  /\ exit_status' = IF ChildAlive THEN "sigkill" ELSE exit_status
  /\ child_pc' = "reaped"
  /\ parent_fds' = parent_fds \ {"r"}
  /\ Return(PAM_AUTH_ERR)
  /\ UNCHANGED <<user, service, cfg, penv, pcred, rundir, has_disp, sel, nread, result>>
  /\ UNCHANGED <<cenv, cred, target_uid, target_gid, pw, calls, child_stdout>>
  /\ UNCHANGED <<pipe, helperVars, dlgVars, lockVars>>

\* RunHelperRead without close(pipefd[0])
RunHelperReadNoClose ==
  /\ pc = "read"
  /\ LET avail == PipeContent
         n == IF Len(avail) < ResultBufSize - 1 THEN Len(avail) ELSE ResultBufSize - 1
     IN /\ nread' = <<n>>
        /\ result' = SubSeq(avail, 1, n)
  /\ pc' = "waitpid"
  /\ UNCHANGED <<ret, user, service, cfg, penv, pcred, rundir, has_disp, sel, parent_fds>>
  /\ UNCHANGED <<childVars, pipe, helperVars, dlgVars, lockVars>>

\* n = read(pipefd[0], result, sizeof(result) - 1); close(pipefd[0])
RunHelperRead ==
  /\ pc = "read"
  /\ LET avail == PipeContent
         n == IF Len(avail) < ResultBufSize - 1 THEN Len(avail) ELSE ResultBufSize - 1
     IN /\ nread' = <<n>>
        /\ result' = SubSeq(avail, 1, n)
  /\ parent_fds' = parent_fds \ {"r"}
  /\ pc' = "waitpid"
  /\ UNCHANGED <<ret, user, service, cfg, penv, pcred, rundir, has_disp, sel>>
  /\ UNCHANGED <<childVars, pipe, helperVars, dlgVars, lockVars>>

\* RunHelperWait without the waitpid
RunHelperNoWait ==
  /\ pc = "waitpid"
  /\ Return(ParseResult(nread[1], result))
  /\ UNCHANGED <<user, service, cfg, penv, pcred, rundir, has_disp, parent_fds, sel,
                 nread, result>>
  /\ UNCHANGED <<childVars, pipe, helperVars, dlgVars, lockVars>>

\* waitpid(pid, &status, 0) returns once the child has exited; then the
\* bytes read are parsed and run_helper returns
RunHelperWait ==
  /\ pc = "waitpid"
  /\ child_pc = "exited"
  /\ child_pc' = "reaped"
  /\ Return(ParseResult(nread[1], result))
  /\ UNCHANGED <<user, service, cfg, penv, pcred, rundir, has_disp, parent_fds, sel,
                 nread, result>>
  /\ UNCHANGED <<cenv, cred, target_uid, target_gid, pw, calls, child_stdout,
                 exit_status, killed>>
  /\ UNCHANGED <<pipe, helperVars, dlgVars, lockVars>>

----------------------------------------------------------------------------
(* pam_sentinel.c: run_helper, child side *)

\* _exit(status)
ChildExit(status) == child_pc' = "exited" /\ exit_status' = status

\* write(STDOUT_FILENO, ...) by the child
WriteStdout(bytes) ==
  pipe' = IF child_stdout = "pipe" THEN Append(pipe, bytes) ELSE pipe

\* lines 365-393: the target identity and the environment for it
ChildResolve ==
  /\ child_pc = "resolve"
  /\ LET sudo_uid   == getenv(cenv, "SUDO_UID")
         pkexec_uid == getenv(cenv, "PKEXEC_UID")
         pwn        == getpwnam(user)
         uid == IF sudo_uid # Unset THEN atoi(sudo_uid)
                ELSE IF pkexec_uid # Unset THEN atoi(pkexec_uid)
                ELSE IF pwn.found THEN pwn.pw_uid
                ELSE cred.ruid
         gid0 == IF sudo_uid = Unset /\ pkexec_uid = Unset /\ pwn.found
                 THEN pwn.pw_gid ELSE cred.rgid
         pwu == getpwuid(uid)
     IN /\ target_uid' = <<uid>>
        /\ pw' = pwu
        /\ IF pwu.found
           THEN /\ target_gid' = <<pwu.pw_gid>>
                /\ cenv' = setenv(setenv(setenv(cenv, "HOME", pwu.pw_dir),
                                         "USER", pwu.pw_name), "LOGNAME", pwu.pw_name)
                /\ child_pc' = "initgroups"
           ELSE /\ target_gid' = <<gid0>>
                /\ cenv' = cenv
                /\ child_pc' = "setgid"
  /\ UNCHANGED <<cred, calls, child_stdout, exit_status, killed>>
  /\ UNCHANGED <<pamVars, pipe, helperVars, dlgVars, lockVars>>

\* initgroups(pw->pw_name, target_gid)
ChildInitgroups ==
  /\ child_pc = "initgroups"
  /\ \E ok \in BOOLEAN :
       /\ calls' = Append(calls, <<"initgroups", ok>>)
       /\ IF ok THEN /\ cred' = [cred EXCEPT !.groups = pw.pw_name]
                     /\ child_pc' = "setgid"
                     /\ exit_status' = exit_status
                ELSE ChildExit("exit1") /\ cred' = cred
  /\ UNCHANGED <<cenv, target_uid, target_gid, pw, child_stdout, killed>>
  /\ UNCHANGED <<pamVars, pipe, helperVars, dlgVars, lockVars>>

\* setgid(target_gid)
ChildSetgid ==
  /\ child_pc = "setgid"
  /\ \E ok \in BOOLEAN :
       /\ calls' = Append(calls, <<"setgid", ok>>)
       /\ IF ok THEN /\ cred' = [cred EXCEPT !.rgid = target_gid[1], !.egid = target_gid[1]]
                     /\ child_pc' = "setuid"
                     /\ exit_status' = exit_status
                ELSE ChildExit("exit1") /\ cred' = cred
  /\ UNCHANGED <<cenv, target_uid, target_gid, pw, child_stdout, killed>>
  /\ UNCHANGED <<pamVars, pipe, helperVars, dlgVars, lockVars>>

\* ChildSetuid with the return value of setuid not checked
ChildSetuidUnchecked ==
  /\ child_pc = "setuid"
  /\ \E ok \in BOOLEAN :
       /\ calls' = Append(calls, <<"setuid", ok>>)
       /\ cred' = IF ok THEN [cred EXCEPT !.ruid = target_uid[1], !.euid = target_uid[1]]
                  ELSE cred
       /\ child_pc' = "dup2"
       /\ exit_status' = exit_status
  /\ UNCHANGED <<cenv, target_uid, target_gid, pw, child_stdout, killed>>
  /\ UNCHANGED <<pamVars, pipe, helperVars, dlgVars, lockVars>>

\* setuid(target_uid)
ChildSetuid ==
  /\ child_pc = "setuid"
  /\ \E ok \in BOOLEAN :
       /\ calls' = Append(calls, <<"setuid", ok>>)
       /\ IF ok THEN /\ cred' = [cred EXCEPT !.ruid = target_uid[1], !.euid = target_uid[1]]
                     /\ child_pc' = "dup2"
                     /\ exit_status' = exit_status
                ELSE ChildExit("exit1") /\ cred' = cred
  /\ UNCHANGED <<cenv, target_uid, target_gid, pw, child_stdout, killed>>
  /\ UNCHANGED <<pamVars, pipe, helperVars, dlgVars, lockVars>>

\* dup2(pipefd[1], STDOUT_FILENO); close(pipefd[1])
ChildDup2 ==
  /\ child_pc = "dup2"
  /\ \E ok \in BOOLEAN :
       IF ok THEN /\ child_stdout' = "pipe"
                  /\ child_pc' = "execv"
                  /\ exit_status' = exit_status
             ELSE ChildExit("exit1") /\ child_stdout' = child_stdout
  /\ UNCHANGED <<cenv, cred, target_uid, target_gid, pw, calls, killed>>
  /\ UNCHANGED <<pamVars, pipe, helperVars, dlgVars, lockVars>>

\* execv(HELPER_PATH, args); when it returns, write "DENY\n" and _exit(1)
ChildExecv ==
  /\ child_pc = "execv"
  /\ \E ok \in BOOLEAN :
       /\ calls' = Append(calls, <<"execv", ok>>)
       /\ IF ok THEN /\ child_pc' = "main"
                     /\ exit_status' = exit_status
                     /\ pipe' = pipe
                ELSE /\ WriteStdout(DENY_STR \o <<NL>>)
                     /\ ChildExit("exit1")
  /\ UNCHANGED <<cenv, cred, target_uid, target_gid, pw, child_stdout, killed>>
  /\ UNCHANGED <<pamVars, helperVars, dlgVars, lockVars>>

----------------------------------------------------------------------------
(* main.cpp: the helper program *)

NoWin == [created |-> FALSE]

\* main, up to g_application_run: parse_args reads --timeout and --min-time
\* (built by run_helper from cfg); without WAYLAND_DISPLAY main returns
\* EXIT_FAILURE and prints nothing to stdout
HelperMain ==
  /\ child_pc = "main"
  /\ LET wd == getenv(cenv, "WAYLAND_DISPLAY")
     IN IF wd = Unset \/ wd = ""
        THEN ChildExit("exit1") /\ UNCHANGED <<state_result, params>>
        ELSE /\ state_result' = "Deny"
             /\ params' = [timeout |-> cfg.timeout,
                           min_display_time |-> cfg.min_display_time]
             /\ child_pc' = "activate"
             /\ exit_status' = exit_status
  /\ UNCHANGED <<cenv, cred, target_uid, target_gid, pw, calls, child_stdout, killed>>
  /\ UNCHANGED <<pamVars, pipe, quit, dlgVars, lockVars>>

\* instance_ == nullptr
NoInstance == [created |-> FALSE, is_locked |-> FALSE]

\* SessionLock::is_locked()
is_locked == lock_state = "Locked"

\* state_ = s, recorded when it changes the value
Moved(path, s) == IF path[Len(path)] = s THEN path ELSE Append(path, s)

\* SessionLock::unlock(): gtk_session_lock_instance_unlock releases the
\* compositor's lock and emits 'unlocked', handled by on_unlocked_signal
\* (state_ = Unlocked, then the callback's g_application_quit)
unlock ==
  IF instance.created /\ instance.is_locked
  THEN /\ instance' = [instance EXCEPT !.is_locked = FALSE]
       /\ comp_lock' = "unlocked"
       /\ unlocks' = unlocks + 1
       /\ lock_state' = "Unlocked"
       /\ state_path' = Moved(state_path, "Unlocked")
  ELSE UNCHANGED unlockVars

\* cleanup with the unlock done whenever there is an instance
cleanup_unconditional ==
  /\ unlocks' = IF instance.created THEN unlocks + 1 ELSE unlocks
  /\ comp_lock' = IF instance.created THEN "unlocked" ELSE comp_lock
  /\ instance' = NoInstance
  /\ lock_state' = "Unlocked"
  /\ state_path' = Moved(state_path, "Unlocked")

\* SessionLock::cleanup(), run by ~SessionLock: the handlers are
\* disconnected, a lock still held is released, the instance is dropped
cleanup ==
  /\ unlocks' = IF instance.created /\ instance.is_locked THEN unlocks + 1 ELSE unlocks
  /\ comp_lock' = IF instance.created /\ instance.is_locked THEN "unlocked" ELSE comp_lock
  /\ instance' = NoInstance
  /\ lock_state' = "Unlocked"
  /\ state_path' = Moved(state_path, "Unlocked")

\* on_result without the unlock
on_result_keep_lock(r) ==
  /\ state_result' = r
  /\ UNCHANGED unlockVars
  /\ quit' = TRUE

\* on_result(state, result): state->result = result; unlock when
\* is_locked(); g_application_quit
on_result(r) ==
  /\ state_result' = r
  /\ IF is_locked THEN unlock ELSE UNCHANGED unlockVars
  /\ quit' = TRUE

\* the callbacks that end the event loop without the window deciding:
\* on_failed and a failed lock() store Deny, on_unlocked stores nothing
LoopEvents == {"failed", "lock_error", "unlocked"} \cup Result

\* g_application_run, seen as the one event that makes it return
HelperRun ==
  /\ child_pc = "activate"
  /\ \E ev \in LoopEvents :
       IF ev \in Result THEN on_result(ev)
       ELSE IF ev \in {"failed", "lock_error"}
            THEN state_result' = "Deny" /\ quit' = TRUE /\ UNCHANGED unlockVars
            ELSE state_result' = state_result /\ quit' = TRUE /\ UNCHANGED unlockVars
  /\ child_pc' = "print"
  /\ UNCHANGED <<cenv, cred, target_uid, target_gid, pw, calls, child_stdout,
                 exit_status, killed>>
  /\ UNCHANGED <<pamVars, pipe, params, dlgVars, lockRest>>

\* std::println("{}", to_string(state.result)); return from main, which
\* destroys state and with it the SessionLock
HelperPrint ==
  /\ child_pc = "print"
  /\ WriteStdout(println(to_string(state_result)))
  /\ held_at_print' = (comp_lock = "locked")
  /\ cleanup
  /\ ChildExit(IF state_result = "Allow" THEN "exit0" ELSE "exit1")
  /\ UNCHANGED <<cenv, cred, target_uid, target_gid, pw, calls, child_stdout, killed>>
  /\ UNCHANGED <<pamVars, helperVars, dlgVars>>
  /\ UNCHANGED <<use_session_lock, lock_supported, first_monitor, surfaces, acquired,
                 errlog, lock_calls>>

----------------------------------------------------------------------------
(* window.cpp: the ConfirmWindow *)

\* g_timeout_add(100, on_timer_tick, self)
TickInterval == 100
\* elapsed_sec = elapsed_ms / 1000
MsPerSec == 1000

\* the clock advances in steps of TickInterval / StepsPerTick milliseconds
StepsPerTick == 2
Step == TickInterval \div StepsPerTick

\* the clock stops here
Horizon == (MaxTimeout + 1) * MsPerSec

\* values of --min-time: none, between two ticks, the default, a whole
\* second, and past a whole second
MinDisplayTimes == {0, TickInterval + Step, DefaultMinDisplayTime, MsPerSec, MsPerSec + Step}

\* (g_get_monotonic_time() - self->start_time) / 1000
ElapsedMs == now - win.start_time

\* a handler that returns without doing anything
Ignored == UNCHANGED <<win, state_result, quit, callbacks, sent_at, unlockVars>>

\* send_result without the result_sent test
send_result_unlatched(w, r) ==
  /\ win' = [w EXCEPT !.result_sent = TRUE]
  /\ on_result(r)
  /\ callbacks' = callbacks + 1
  /\ sent_at' = <<now>>

\* send_result(self, result), entered with the window's fields at w.
\* gtk_window_close then emits close-request, whose handler on_close_request
\* finds result_sent set and does nothing.
send_result(w, r) ==
  IF w.result_sent
  THEN /\ win' = w
       /\ UNCHANGED <<state_result, quit, callbacks, sent_at, unlockVars>>
  ELSE /\ win' = [w EXCEPT !.result_sent = TRUE]
       /\ on_result(r)
       /\ callbacks' = callbacks + 1
       /\ sent_at' = <<now>>

\* what the events of the window leave alone
EventFrame ==
  /\ UNCHANGED <<cenv, cred, target_uid, target_gid, pw, calls, child_stdout,
                 exit_status, killed, child_pc>>
  /\ UNCHANGED <<pamVars, pipe, params, now, lockRest>>

WindowLive == child_pc = "running" /\ win.created

\* confirm_window_new starting the timer whatever the timeout is
confirm_window_new_timer_always(lag) ==
  /\ win' = [created |-> TRUE,
             start_time |-> now,
             timeout |-> params.timeout,
             min_display_time |-> params.min_display_time,
             result_sent |-> FALSE,
             timer_id |-> 1,
             allow_enabled |-> FALSE]
  /\ next_tick' = now + TickInterval + lag

\* confirm_window_init and confirm_window_new, called by
\* on_activate_without_lock: the window starts undecided with the accept
\* button off; with a timeout the 100 ms timer is started, without one the
\* accept button is on at once
confirm_window_new(lag) ==
  /\ win' = [created |-> TRUE,
             start_time |-> now,
             timeout |-> params.timeout,
             min_display_time |-> params.min_display_time,
             result_sent |-> FALSE,
             timer_id |-> IF params.timeout > 0 THEN 1 ELSE 0,
             allow_enabled |-> ~(params.timeout > 0)]
  /\ next_tick' = IF params.timeout > 0 THEN now + TickInterval + lag ELSE next_tick

\* on_activate without session lock; lag is the time from reading the
\* clock for start_time to the timer being armed
on_activate_without_lock ==
  /\ child_pc = "activate"
  /\ \E lag \in {0, Step} : confirm_window_new(lag)
  /\ child_pc' = "running"
  /\ last_event' = "activate"
  /\ UNCHANGED <<cenv, cred, target_uid, target_gid, pw, calls, child_stdout,
                 exit_status, killed>>
  /\ UNCHANGED <<pamVars, pipe, helperVars, now, callbacks, user_input, sent_at>>
  /\ UNCHANGED <<unlockVars, use_session_lock, lock_supported, first_monitor, surfaces,
                 acquired, held_at_print, lock_calls>>

\* what SessionLock::lock() can come to once is_supported() holds
LockResult == {"Success", "NoInstance", "LockRefused", "AlreadyLocked"}

\* SessionLock::lock(): AlreadyLocked when the instance holds the lock;
\* otherwise cleanup() drops an earlier instance (state_ = Unlocked), then
\* Failed when gtk_session_lock_instance_new gives no instance, or when
\* gtk_session_lock_instance_lock refuses (state_ = Locking, then Failed);
\* otherwise state_ = Locking and the request is with the compositor
lock(outcome) ==
  /\ (outcome = "AlreadyLocked") <=> (instance.created /\ instance.is_locked)
  /\ IF outcome = "AlreadyLocked"
     THEN UNCHANGED unlockVars
     ELSE /\ instance' = IF outcome = "NoInstance" THEN NoInstance
                         ELSE [created |-> TRUE, is_locked |-> FALSE]
          /\ lock_state' = CASE outcome = "NoInstance"  -> "Unlocked"
                             [] outcome = "LockRefused" -> "Failed"
                             [] OTHER                   -> "Locking"
          /\ state_path' =
               LET cleaned == Moved(state_path, "Unlocked")
               IN CASE outcome = "NoInstance"  -> cleaned
                    [] outcome = "LockRefused" -> Append(Append(cleaned, "Locking"), "Failed")
                    [] OTHER                   -> Append(cleaned, "Locking")
          /\ comp_lock' = IF outcome = "Success" /\ comp_lock = "unlocked"
                          THEN "requested" ELSE comp_lock
          /\ unlocks' = unlocks

ErrLockFailed == "Error: Failed to acquire session lock"
ErrAlreadyLocked == "Error: Session is already locked"
WarnNotSupported == "Warning: Session lock not supported, running without it"

\* on_activate_with_lock: the callbacks are registered, lock() is called; a
\* result other than Success is logged, stored as Deny and quits
on_activate_with_lock ==
  /\ child_pc \in {"activate", "running"}
  /\ lock_calls' = lock_calls + 1
  /\ \E outcome \in LockResult :
       /\ lock(outcome)
       /\ IF outcome # "Success"
          THEN /\ errlog' = errlog \cup {IF outcome = "AlreadyLocked"
                                         THEN ErrAlreadyLocked ELSE ErrLockFailed}
               /\ state_result' = "Deny"
               /\ quit' = TRUE
          ELSE UNCHANGED <<errlog, state_result, quit>>
  /\ child_pc' = "running"
  /\ last_event' = "activate"
  /\ UNCHANGED <<cenv, cred, target_uid, target_gid, pw, calls, child_stdout,
                 exit_status, killed>>
  /\ UNCHANGED <<pamVars, pipe, params, win, now, next_tick, callbacks, user_input, sent_at>>
  /\ UNCHANGED <<use_session_lock, lock_supported, first_monitor, surfaces, acquired,
                 held_at_print>>

\* the most activations of one helper
MaxActivations == 2

\* the 'activate' signal emitted again while g_application_run runs (the
\* application is started a second time in the session and the running
\* instance is activated), in a helper that took the lock path
on_activate_again ==
  /\ child_pc = "running"
  /\ use_session_lock /\ lock_supported
  /\ lock_calls < MaxActivations
  /\ on_activate_with_lock

\* on_activate with the unsupported compositor treated as a lock failure
on_activate_strict ==
  /\ child_pc = "activate"
  /\ IF use_session_lock
     THEN on_activate_with_lock
     ELSE errlog' = errlog /\ on_activate_without_lock

\* on_activate: the lock path when it is asked for and supported, else the
\* plain window, with a warning when the lock was asked for
on_activate ==
  /\ child_pc = "activate"
  /\ IF use_session_lock /\ lock_supported
     THEN on_activate_with_lock
     ELSE /\ errlog' = IF use_session_lock THEN errlog \cup {WarnNotSupported} ELSE errlog
          /\ on_activate_without_lock

\* what the signals of the lock instance leave alone
SignalFrame ==
  /\ UNCHANGED <<cenv, cred, target_uid, target_gid, pw, calls, child_stdout,
                 exit_status, killed, child_pc>>
  /\ UNCHANGED <<pamVars, pipe, params, now, callbacks, user_input, sent_at>>
  /\ UNCHANGED <<use_session_lock, lock_supported, unlocks, held_at_print, lock_calls>>

\* a signal of the instance is dispatched by the running event loop
SignalLive == child_pc = "running" /\ ~quit /\ instance.created

\* the compositor grants the lock that was requested; the helper learns of
\* it when the 'locked' signal is dispatched
CompositorLock ==
  /\ child_pc \in {"running", "print"}
  /\ comp_lock = "requested"
  /\ comp_lock' = "locked"
  /\ UNCHANGED <<pamVars, childVars, pipe, helperVars, dlgVars>>
  /\ UNCHANGED <<lock_state, instance, unlocks, state_path, lockRest>>

\* a signal of the instance whose source was ready in the iteration of the
\* main loop in which a handler called g_application_quit: the iteration
\* dispatches it before g_application_run returns
SignalLate == child_pc = "running" /\ quit /\ instance.created

\* SessionLock::on_locked_signal: state_ = Locked; the callback of main.cpp
\* does nothing
locked_handler ==
  /\ lock_state = "Locking" /\ comp_lock = "locked"
  /\ lock_state' = "Locked"
  /\ state_path' = Moved(state_path, "Locked")
  /\ instance' = [instance EXCEPT !.is_locked = TRUE]
  /\ acquired' = TRUE
  /\ last_event' = "locked"
  /\ UNCHANGED <<comp_lock, first_monitor, surfaces, errlog, win, next_tick,
                 state_result, quit>>
  /\ SignalFrame

on_locked_signal == SignalLive /\ locked_handler
on_locked_signal_late == SignalLate /\ locked_handler

\* SessionLock::on_failed_signal, the compositor having turned the request
\* down: state_ = Failed; the callback logs, stores Deny and quits
failed_handler ==
  /\ lock_state = "Locking" /\ comp_lock = "requested"
  /\ lock_state' = "Failed"
  /\ state_path' = Moved(state_path, "Failed")
  /\ comp_lock' = "unlocked"
  /\ errlog' = errlog \cup {ErrLockFailed}
  /\ state_result' = "Deny"
  /\ quit' = TRUE
  /\ last_event' = "failed"
  /\ UNCHANGED <<instance, first_monitor, surfaces, acquired, win, next_tick>>
  /\ SignalFrame

on_failed_signal == SignalLive /\ failed_handler
on_failed_signal_late == SignalLate /\ failed_handler

\* SessionLock::on_unlocked_signal with the compositor ending the lock by
\* itself: state_ = Unlocked; the callback of main.cpp quits and leaves
\* state->result as it is
on_unlocked_signal ==
  /\ SignalLive
  /\ lock_state = "Locked" /\ comp_lock = "locked"
  /\ comp_lock' = "unlocked"
  /\ instance' = [instance EXCEPT !.is_locked = FALSE]
  /\ lock_state' = "Unlocked"
  /\ state_path' = Moved(state_path, "Unlocked")
  /\ quit' = TRUE
  /\ last_event' = "unlocked"
  /\ UNCHANGED <<first_monitor, surfaces, acquired, errlog, win, next_tick, state_result>>
  /\ SignalFrame

\* the most 'monitor' notifications of one session
MaxMonitors == 2

\* on_monitor_signal with the callback giving every monitor the dialog
on_monitor_signal_all_prompt ==
  /\ SignalLive
  /\ lock_state \in {"Locking", "Locked"}
  /\ Len(surfaces) < MaxMonitors
  /\ first_monitor' = first_monitor
  /\ \E lag \in {0, Step} : confirm_window_new(lag)
  /\ surfaces' = Append(surfaces, "Prompt")
  /\ last_event' = "monitor"
  /\ UNCHANGED <<lock_state, state_path, instance, comp_lock, acquired, errlog,
                 state_result, quit>>
  /\ SignalFrame

\* SessionLock::on_monitor_signal with the callback of main.cpp: the first
\* monitor gets confirm_window_new, every other one a blank window
on_monitor_signal ==
  /\ SignalLive
  /\ lock_state \in {"Locking", "Locked"}
  /\ Len(surfaces) < MaxMonitors
  /\ IF first_monitor
     THEN /\ first_monitor' = FALSE
          /\ \E lag \in {0, Step} : confirm_window_new(lag)
          /\ surfaces' = Append(surfaces, "Prompt")
     ELSE /\ first_monitor' = first_monitor
          /\ UNCHANGED <<win, next_tick>>
          /\ surfaces' = Append(surfaces, "Cover")
  /\ last_event' = "monitor"
  /\ UNCHANGED <<lock_state, state_path, instance, comp_lock, acquired, errlog,
                 state_result, quit>>
  /\ SignalFrame

\* on_allow_clicked without the test of the elapsed time
on_allow_clicked_unchecked ==
  /\ WindowLive
  /\ IF ~win.allow_enabled THEN Ignored
     ELSE send_result(win, "Allow")
  /\ last_event' = "accept"
  /\ user_input' = TRUE
  /\ next_tick' = next_tick
  /\ EventFrame

on_allow_clicked ==
  /\ WindowLive
  /\ IF ~win.allow_enabled THEN Ignored
     ELSE IF ElapsedMs < win.min_display_time THEN Ignored
     ELSE send_result(win, "Allow")
  /\ last_event' = "accept"
  /\ user_input' = TRUE
  /\ next_tick' = next_tick
  /\ EventFrame

\* on_deny_clicked with the gate of the accept button
on_deny_clicked_gated ==
  /\ WindowLive
  /\ IF ~win.allow_enabled THEN Ignored
     ELSE IF ElapsedMs < win.min_display_time THEN Ignored
     ELSE send_result(win, "Deny")
  /\ last_event' = "decline"
  /\ user_input' = TRUE
  /\ next_tick' = next_tick
  /\ EventFrame

on_deny_clicked ==
  /\ WindowLive
  /\ send_result(win, "Deny")
  /\ last_event' = "decline"
  /\ user_input' = TRUE
  /\ next_tick' = next_tick
  /\ EventFrame

on_key_pressed ==
  /\ WindowLive
  /\ \E keyval \in {"Escape", "Return"} :
       /\ IF keyval = "Escape" THEN send_result(win, "Deny") ELSE Ignored
       /\ last_event' = keyval
  /\ user_input' = TRUE
  /\ next_tick' = next_tick
  /\ EventFrame

\* on_close_request reporting Allow
on_close_request_allow ==
  /\ WindowLive
  /\ IF ~win.result_sent THEN send_result(win, "Allow") ELSE Ignored
  /\ last_event' = "close"
  /\ user_input' = TRUE
  /\ next_tick' = next_tick
  /\ EventFrame

\* close-request arriving from outside the window
on_close_request ==
  /\ WindowLive
  /\ IF ~win.result_sent THEN send_result(win, "Deny") ELSE Ignored
  /\ last_event' = "close"
  /\ user_input' = TRUE
  /\ next_tick' = next_tick
  /\ EventFrame

\* on_timer_tick with remaining < 0 in place of remaining <= 0
on_timer_tick_late ==
  /\ WindowLive
  /\ win.timer_id # 0
  /\ now >= next_tick
  /\ LET elapsed_ms  == ElapsedMs
         elapsed_sec == elapsed_ms \div MsPerSec
         remaining   == win.timeout - elapsed_sec
     IN IF remaining < 0
        THEN /\ send_result([win EXCEPT !.timer_id = 0], "Timeout")
             /\ next_tick' = next_tick
        ELSE /\ win' = [win EXCEPT !.allow_enabled =
                          @ \/ elapsed_ms >= win.min_display_time]
             /\ next_tick' = now + TickInterval
             /\ UNCHANGED <<state_result, quit, callbacks, sent_at, unlockVars>>
  /\ last_event' = "tick"
  /\ user_input' = user_input
  /\ EventFrame

\* on_timer_tick enabling the accept button without the test of the
\* elapsed time
on_timer_tick_eager ==
  /\ WindowLive
  /\ win.timer_id # 0
  /\ now >= next_tick
  /\ LET elapsed_ms  == ElapsedMs
         elapsed_sec == elapsed_ms \div MsPerSec
         remaining   == win.timeout - elapsed_sec
     IN IF remaining <= 0
        THEN /\ send_result([win EXCEPT !.timer_id = 0], "Timeout")
             /\ next_tick' = next_tick
        ELSE /\ win' = [win EXCEPT !.allow_enabled = TRUE]
             /\ next_tick' = now + TickInterval
             /\ UNCHANGED <<state_result, quit, callbacks, sent_at, unlockVars>>
  /\ last_event' = "tick"
  /\ user_input' = user_input
  /\ EventFrame

\* on_timer_tick with the accept button enabled before the timeout is
\* looked at
on_timer_tick_enable_first ==
  /\ WindowLive
  /\ win.timer_id # 0
  /\ now >= next_tick
  /\ LET elapsed_ms  == ElapsedMs
         elapsed_sec == elapsed_ms \div MsPerSec
         remaining   == win.timeout - elapsed_sec
         enabled     == [win EXCEPT !.allow_enabled = @ \/ elapsed_ms >= win.min_display_time]
     IN IF remaining <= 0
        THEN /\ send_result([enabled EXCEPT !.timer_id = 0], "Timeout")
             /\ next_tick' = next_tick
        ELSE /\ win' = enabled
             /\ next_tick' = now + TickInterval
             /\ UNCHANGED <<state_result, quit, callbacks, sent_at, unlockVars>>
  /\ last_event' = "tick"
  /\ user_input' = user_input
  /\ EventFrame

\* the timeout source is dispatched when it is due
on_timer_tick ==
  /\ WindowLive
  /\ win.timer_id # 0
  /\ now >= next_tick
  /\ LET elapsed_ms  == ElapsedMs
         elapsed_sec == elapsed_ms \div MsPerSec
         remaining   == win.timeout - elapsed_sec
     IN IF remaining <= 0
        THEN /\ send_result([win EXCEPT !.timer_id = 0], "Timeout")
             /\ next_tick' = next_tick
        ELSE /\ win' = [win EXCEPT !.allow_enabled =
                          @ \/ elapsed_ms >= win.min_display_time]
             /\ next_tick' = now + TickInterval
             /\ UNCHANGED <<state_result, quit, callbacks, sent_at, unlockVars>>
  /\ last_event' = "tick"
  /\ user_input' = user_input
  /\ EventFrame

\* the window exists and its timeout source is attached
TimerArmed == win.created /\ win.timer_id # 0

\* time passes while the event loop waits; a due timer is dispatched
\* before the clock moves on.  The clock is read only against the window's
\* start_time, so it stands still until there is a window.
Advance ==
  /\ WindowLive
  /\ ~quit
  /\ now < Horizon
  /\ ~(TimerArmed /\ now >= next_tick)
  /\ now' = IF TimerArmed /\ now + Step > next_tick THEN next_tick ELSE now + Step
  /\ last_event' = "advance"
  /\ UNCHANGED <<cenv, cred, target_uid, target_gid, pw, calls, child_stdout,
                 exit_status, killed, child_pc>>
  /\ UNCHANGED <<pamVars, pipe, helperVars, win, next_tick, callbacks, user_input, sent_at>>
  /\ UNCHANGED lockVars

\* g_application_run returns after g_application_quit
AppQuit ==
  /\ child_pc = "running"
  /\ quit
  /\ child_pc' = "print"
  /\ last_event' = "quit"
  /\ UNCHANGED <<cenv, cred, target_uid, target_gid, pw, calls, child_stdout,
                 exit_status, killed>>
  /\ UNCHANGED <<pamVars, pipe, helperVars, win, now, next_tick, callbacks,
                 user_input, sent_at>>
  /\ UNCHANGED lockVars

----------------------------------------------------------------------------
(* Spec: one authentication attempt *)

NoChild ==
  /\ child_pc = "none"
  /\ cenv = [n \in EnvNames |-> Unset]
  /\ cred = [ruid |-> 0, euid |-> 0, rgid |-> 0, egid |-> 0, groups |-> "root"]
  /\ target_uid = <<>> /\ target_gid = <<>> /\ pw = NoPw
  /\ calls = <<>> /\ child_stdout = "inherited"
  /\ exit_status = "none" /\ killed = FALSE

NoDialog ==
  /\ win = NoWin /\ now = 0 /\ next_tick = 0
  /\ callbacks = 0 /\ last_event = "none" /\ user_input = FALSE /\ sent_at = <<>>

\* AppState before on_activate: SessionLock and first_monitor as constructed
NoLock ==
  /\ lock_state = "Unlocked" /\ instance = NoInstance /\ comp_lock = "unlocked"
  /\ first_monitor = TRUE /\ surfaces = <<>> /\ unlocks = 0
  /\ acquired = FALSE /\ held_at_print = FALSE /\ errlog = {}
  /\ state_path = <<"Unlocked">> /\ lock_calls = 0

InitEnv(wd, h) ==
  [n \in EnvNames |->
     CASE n = "WAYLAND_DISPLAY" -> wd
       [] n = "SUDO_UID"        -> h[1]
       [] n = "PKEXEC_UID"      -> h[2]
       [] n = "HOME"            -> "/root"
       [] n \in {"USER", "LOGNAME"} -> "root"
       [] n = "PATH"            -> "/usr/sbin:/usr/bin"
       [] OTHER                 -> Unset]

Init ==
  /\ pc = "start" /\ ret = NoRet
  /\ user \in Users
  /\ service = NoItem
  /\ cfg = NoCfg
  /\ \E wd \in {Unset, "", "wayland-1"}, h \in IdentityHints : penv = InitEnv(wd, h)
  /\ pcred \in ParentCreds
  /\ rundir \in RunDirs
  /\ has_disp = "unknown"
  /\ parent_fds = {}
  /\ sel = <<>> /\ nread = <<>> /\ result = <<>>
  /\ NoChild
  /\ pipe = <<>>
  /\ state_result = "Deny" /\ params = [timeout |-> 0, min_display_time |-> 0]
  /\ quit = FALSE
  /\ NoDialog
  /\ NoLock /\ use_session_lock = TRUE /\ lock_supported = TRUE

Next ==
  \/ pam_sm_authenticate
  \/ RunHelperPipe \/ RunHelperFork \/ RunHelperSelect
  \/ RunHelperKill \/ RunHelperRead \/ RunHelperWait
  \/ ChildResolve \/ ChildInitgroups \/ ChildSetgid \/ ChildSetuid
  \/ ChildDup2 \/ ChildExecv
  \/ HelperMain \/ HelperRun \/ HelperPrint

Spec == Init /\ [][Next]_vars

----------------------------------------------------------------------------
(* SpecDialog: the helper program started by run_helper for alice, shown   *)
(* without session lock, under the clock                                   *)

\* run_helper has forked, the child has dropped to alice and exec'ed the
\* helper; the parent waits in select
Spawned ==
  /\ pc = "select" /\ ret = NoRet
  /\ user = "alice" /\ service = "sudo"
  /\ penv = InitEnv("wayland-1", <<"1000", Unset>>)
  /\ pcred \in {c \in ParentCreds : c.ruid = 1000}
  /\ rundir \in {d \in RunDirs : d[1000] = NoDir}
  /\ has_disp = "yes"
  /\ parent_fds = {"r"}
  /\ sel = <<>> /\ nread = <<>> /\ result = <<>>
  /\ cenv = setenv(setenv(setenv(penv, "HOME", "/home/alice"), "USER", "alice"),
                   "LOGNAME", "alice")
  /\ cred = [ruid |-> 1000, euid |-> 1000, rgid |-> 1000, egid |-> 1000, groups |-> "alice"]
  /\ target_uid = <<1000>> /\ target_gid = <<1000>> /\ pw = getpwuid(1000)
  /\ calls = << <<"initgroups", TRUE>>, <<"setgid", TRUE>>, <<"setuid", TRUE>>,
                <<"execv", TRUE>> >>
  /\ child_stdout = "pipe"
  /\ exit_status = "none" /\ killed = FALSE
  /\ pipe = <<>>
  /\ state_result = "Deny"
  /\ quit = FALSE
  /\ NoDialog
  /\ NoLock

\* the helper started with --no-session-lock, or on a compositor without
\* the session lock protocol
InitDialog ==
  /\ Spawned
  /\ child_pc = "activate"
  /\ use_session_lock \in BOOLEAN /\ lock_supported \in BOOLEAN
  /\ ~(use_session_lock /\ lock_supported)
  /\ params \in [timeout : 0..MaxTimeout, min_display_time : MinDisplayTimes]
  /\ cfg = [loaded |-> TRUE, enabled |-> TRUE, timeout |-> params.timeout,
            min_display_time |-> params.min_display_time,
            headless_action |-> "password", log_attempts |-> TRUE]

NextDialog ==
  \/ on_activate
  \/ on_allow_clicked \/ on_deny_clicked \/ on_key_pressed \/ on_close_request
  \/ on_timer_tick
  \/ Advance
  \/ AppQuit
  \/ HelperPrint

SpecDialog == InitDialog /\ [][NextDialog]_vars

----------------------------------------------------------------------------
(* SpecChannel: the parent half of run_helper against a child whose        *)
(* standard output carries arbitrary bytes                                 *)

\* the most writes the child makes
MaxWrites == 2

\* what one write of the child may carry
Chunks == { ALLOW_STR \o <<NL>>, ALLOW_STR, DENY_STR \o <<NL>>, TIMEOUT_STR \o <<NL>>,
            <<"A", "L">>, <<"L", "O", "W", NL>>, ALLOW_STR \o <<CR>>,
            ALLOW_STR \o <<"X", NL>>, <<NL>> }

ChannelWrite ==
  /\ child_pc = "writer"
  /\ Len(pipe) < MaxWrites
  /\ \E chunk \in Chunks : WriteStdout(chunk)
  /\ UNCHANGED <<pamVars, childVars, helperVars, dlgVars, lockVars>>

ChannelClose ==
  /\ child_pc = "writer"
  /\ \E status \in {"exit0", "exit1"} : ChildExit(status)
  /\ UNCHANGED <<cenv, cred, target_uid, target_gid, pw, calls, child_stdout, killed>>
  /\ UNCHANGED <<pamVars, pipe, helperVars, dlgVars, lockVars>>

InitChannel ==
  /\ Spawned
  /\ use_session_lock = TRUE /\ lock_supported = TRUE
  /\ child_pc = "writer"
  /\ params = [timeout |-> DefaultTimeout, min_display_time |-> DefaultMinDisplayTime]
  /\ cfg = load_config("sudo", [exists |-> FALSE])

NextChannel ==
  \/ ChannelWrite \/ ChannelClose
  \/ RunHelperSelect \/ RunHelperKill \/ RunHelperRead \/ RunHelperWait

SpecChannel == InitChannel /\ [][NextChannel]_vars

\* SpecHang: SpecChannel with the parent's steps taken whenever they can
\* be: run_helper is straight-line code, so each of its calls is made in
\* the end; select returns by its deadline at the latest.  The child owes
\* nothing: it may write and then neither write again nor exit.
SpecHang ==
  /\ InitChannel /\ [][NextChannel]_vars
  /\ WF_vars(RunHelperSelect) /\ WF_vars(RunHelperKill)
  /\ WF_vars(RunHelperRead) /\ WF_vars(RunHelperWait)

----------------------------------------------------------------------------
(* SpecDeadline: the parent half of run_helper under a clock, against a    *)
(* child that writes, exits or hangs                                       *)

\* tv.tv_sec = cfg->timeout + 5
SelectSlack == 5

\* the time select gives up, the wait starting at clock 0
SelectDeadline == (cfg.timeout + SelectSlack) * MsPerSec

\* select() under the clock: it returns 1 as soon as there is data or end
\* of file, 0 when tv has run out with neither, -1 on an error (a signal)
RunHelperSelectDeadline ==
  /\ pc = "select"
  /\ \E v \in {1, 0, -1} :
       /\ v = 1 => (PipeContent # <<>> \/ ~WriteEndOpen)
       /\ v = 0 => (PipeContent = <<>> /\ WriteEndOpen /\ now >= SelectDeadline)
       /\ sel' = <<v>>
       /\ pc' = IF v <= 0 THEN "kill" ELSE "read"
  /\ UNCHANGED <<ret, user, service, cfg, penv, pcred, rundir, has_disp, parent_fds,
                 nread, result>>
  /\ UNCHANGED <<childVars, pipe, helperVars, dlgVars, lockVars>>

\* a second passes while the parent sleeps in select with nothing to read
DeadlineTick ==
  /\ pc = "select"
  /\ PipeContent = <<>> /\ WriteEndOpen
  /\ now < SelectDeadline
  /\ now' = now + MsPerSec
  /\ UNCHANGED <<pamVars, childVars, pipe, helperVars>>
  /\ UNCHANGED <<win, next_tick, callbacks, last_event, user_input, sent_at>>
  /\ UNCHANGED lockVars

InitDeadline ==
  /\ Spawned
  /\ use_session_lock = TRUE /\ lock_supported = TRUE
  /\ child_pc = "writer"
  /\ params \in [timeout : 0..MaxTimeout, min_display_time : {DefaultMinDisplayTime}]
  /\ cfg = [loaded |-> TRUE, enabled |-> TRUE, timeout |-> params.timeout,
            min_display_time |-> params.min_display_time,
            headless_action |-> "password", log_attempts |-> TRUE]

NextDeadline ==
  \/ DeadlineTick
  \/ ChannelWrite \/ ChannelClose
  \/ RunHelperSelectDeadline \/ RunHelperKill \/ RunHelperRead \/ RunHelperWait

SpecDeadline == InitDeadline /\ [][NextDeadline]_vars

----------------------------------------------------------------------------
(* SpecLock: the helper program as run_helper starts it, with the session  *)
(* lock, under the clock.  SpecKill: the same helper with no countdown,    *)
(* and the parent waiting for it.                                          *)

\* the timeouts of the lock sessions: no countdown, and a countdown
LockTimeouts == {0, 1}

InitLock ==
  /\ Spawned
  /\ child_pc = "activate"
  /\ use_session_lock = TRUE /\ lock_supported = TRUE
  /\ params \in [timeout : LockTimeouts, min_display_time : {0, DefaultMinDisplayTime}]
  /\ cfg = [loaded |-> TRUE, enabled |-> TRUE, timeout |-> params.timeout,
            min_display_time |-> params.min_display_time,
            headless_action |-> "password", log_attempts |-> TRUE]

\* under the clock the lock session has a countdown
InitLockTimed ==
  /\ InitLock
  /\ params.timeout > 0

NextLock ==
  \/ on_activate
  \/ CompositorLock
  \/ on_locked_signal \/ on_failed_signal \/ on_monitor_signal
  \/ on_allow_clicked \/ on_deny_clicked \/ on_key_pressed \/ on_close_request
  \/ on_timer_tick
  \/ Advance
  \/ AppQuit
  \/ HelperPrint

SpecLock == InitLockTimed /\ [][NextLock]_vars

\* SpecLoop: the lock session with everything the main loop can deliver:
\* a second activation, and signals dispatched in the iteration that quit
NextLoop ==
  \/ NextLock
  \/ on_activate_again
  \/ on_locked_signal_late \/ on_failed_signal_late

SpecLoop == InitLockTimed /\ [][NextLoop]_vars

\* SpecHelper: the helper on either path (with the lock, or the plain
\* window when the lock is not asked for or not supported), with
\* everything the main loop and the compositor can deliver
InitHelper ==
  /\ Spawned
  /\ child_pc = "activate"
  /\ use_session_lock \in BOOLEAN /\ lock_supported \in BOOLEAN
  /\ params \in [timeout : LockTimeouts \ {0}, min_display_time : {0, DefaultMinDisplayTime}]
  /\ cfg = [loaded |-> TRUE, enabled |-> TRUE, timeout |-> params.timeout,
            min_display_time |-> params.min_display_time,
            headless_action |-> "password", log_attempts |-> TRUE]

NextHelper ==
  \/ NextLoop
  \/ on_unlocked_signal

SpecHelper == InitHelper /\ [][NextHelper]_vars

\* timeout = 0: the window has no countdown, the parent's select still has
\* its deadline
InitKill ==
  /\ InitLock
  /\ params.timeout = 0

NextKill ==
  \/ on_activate
  \/ CompositorLock
  \/ on_locked_signal \/ on_failed_signal \/ on_monitor_signal
  \/ on_allow_clicked \/ on_deny_clicked \/ on_key_pressed \/ on_close_request
  \/ AppQuit
  \/ HelperPrint
  \/ RunHelperSelect \/ RunHelperKill \/ RunHelperRead \/ RunHelperWait

\* every step that can be taken is taken in the end
SpecKill == InitKill /\ [][NextKill]_vars /\ WF_vars(NextKill)

----------------------------------------------------------------------------
(* SpecOptOut: a policy with timeout = 0 from the fork to the return of    *)
(* run_helper: the helper's window without countdown on a compositor       *)
(* without the session lock protocol, and the parent in select, under a    *)
(* clock in seconds                                                        *)

InitOptOut ==
  /\ Spawned
  /\ child_pc = "activate"
  /\ use_session_lock = TRUE /\ lock_supported = FALSE
  /\ params \in [timeout : {0}, min_display_time : {0, DefaultMinDisplayTime}]
  /\ cfg = [loaded |-> TRUE, enabled |-> TRUE, timeout |-> params.timeout,
            min_display_time |-> params.min_display_time,
            headless_action |-> "password", log_attempts |-> TRUE]

NextOptOut ==
  \/ on_activate
  \/ on_allow_clicked \/ on_deny_clicked \/ on_key_pressed \/ on_close_request
  \/ AppQuit
  \/ HelperPrint
  \/ DeadlineTick
  \/ RunHelperSelectDeadline \/ RunHelperKill \/ RunHelperRead \/ RunHelperWait

SpecOptOut == InitOptOut /\ [][NextOptOut]_vars

----------------------------------------------------------------------------
(* SpecFormat: the strings run_helper hands to the helper *)

\* sizeof(formatted_message), sizeof(formatted_secondary)
MsgBufSize == 512

\* the bytes of the names that are substituted
Chars(name) ==
  CASE name = "alice" -> <<"a", "l", "i", "c", "e">>
    [] name = "sudo"  -> <<"s", "u", "d", "o">>
    [] name = "bash"  -> <<"b", "a", "s", "h">>
    [] OTHER          -> <<"?">>

\* get_process_name(getppid(), ...): the comm of the calling process
ProcessName == "bash"

Take(str, n) == SubSeq(str, 1, IF n < Len(str) THEN n ELSE Len(str))
Drop(str, n) == SubSeq(str, (IF n < Len(str) THEN n ELSE Len(str)) + 1, Len(str))

\* the loop of format_message: p is what is left of the template, o the
\* output so far, cap the room of the output (len - 1); usr, svc and proc
\* are the pointers user, service and process, which the copying loops
\* advance
RECURSIVE format_loop(_, _, _, _, _, _)
format_loop(p, o, usr, svc, proc, cap) ==
  IF p = <<>> \/ Len(o) >= cap THEN o
  ELSE IF Head(p) = "%" /\ Len(p) >= 2
  THEN LET c    == p[2]
           rest == SubSeq(p, 3, Len(p))
           room == cap - Len(o)
       IN IF c = "u" THEN format_loop(rest, o \o Take(usr, room), Drop(usr, room), svc, proc, cap)
          ELSE IF c = "s" THEN format_loop(rest, o \o Take(svc, room), usr, Drop(svc, room), proc, cap)
          ELSE IF c = "p" THEN format_loop(rest, o \o Take(proc, room), usr, svc, Drop(proc, room), cap)
          ELSE IF c = "%" THEN format_loop(rest, Append(o, "%"), usr, svc, proc, cap)
          ELSE format_loop(rest, IF room >= 2 THEN o \o <<"%", c>> ELSE Append(o, "%"),
                           usr, svc, proc, cap)
  ELSE format_loop(Tail(p), Append(o, Head(p)), usr, svc, proc, cap)

\* format_message(template, output, len, user, service, process)
format_message(template, len, usr, svc, proc) ==
  format_loop(template, <<>>, usr, svc, proc, len - 1)

\* the longest template of the model
MaxTemplateLen == 4

TemplateChars == {"%", "u", "s", "p", "x"}

\* templates of a policy file's [appearance] section
Templates == UNION { [1..n -> TemplateChars] : n \in 0..MaxTemplateLen }

\* lines 344-348 and 424-434 of run_helper: the title, message and
\* secondary arguments, as parse_args of the helper stores them
RunHelperArgs ==
  /\ pc = "run_helper"
  /\ params' = [title     |-> cfg.title,
                message   |-> format_message(cfg.message, MsgBufSize, Chars(user),
                                             Chars(service), Chars(ProcessName)),
                secondary |-> format_message(cfg.secondary, MsgBufSize, Chars(user),
                                             Chars(service), Chars(ProcessName)),
                timeout |-> cfg.timeout, min_display_time |-> cfg.min_display_time]
  /\ pc' = "pipe"
  /\ UNCHANGED <<ret, user, service, cfg, penv, pcred, rundir, has_disp, parent_fds,
                 sel, nread, result>>
  /\ UNCHANGED <<childVars, pipe, state_result, quit, dlgVars, lockVars>>

\* pam_sm_authenticate has found a display and calls run_helper
InitFormat ==
  /\ pc = "run_helper" /\ ret = NoRet
  /\ user = "alice" /\ service = "sudo"
  /\ \E t \in {<<"x">>, <<"%", "u">>}, m \in Templates,
        sec \in {<<>>, <<"%", "s", "x">>} :
       cfg = [loaded |-> TRUE, enabled |-> TRUE, timeout |-> DefaultTimeout,
              min_display_time |-> DefaultMinDisplayTime,
              headless_action |-> "password", log_attempts |-> TRUE,
              title |-> t, message |-> m, secondary |-> sec]
  /\ penv = InitEnv("wayland-1", <<"1000", Unset>>)
  /\ pcred \in {c \in ParentCreds : c.ruid = 1000}
  /\ rundir \in {d \in RunDirs : d[1000] = NoDir}
  /\ has_disp = "yes"
  /\ parent_fds = {}
  /\ sel = <<>> /\ nread = <<>> /\ result = <<>>
  /\ NoChild
  /\ pipe = <<>>
  /\ state_result = "Deny" /\ params = [timeout |-> 0, min_display_time |-> 0]
  /\ quit = FALSE
  /\ NoDialog
  /\ NoLock /\ use_session_lock = TRUE /\ lock_supported = TRUE

NextFormat == RunHelperArgs

SpecFormat == InitFormat /\ [][NextFormat]_vars

----------------------------------------------------------------------------
(* Properties *)

Forked == child_pc # "none"

\* the calls of the given names the child made, in order
CallsOf(names) == SelectSeq(calls, LAMBDA c : c[1] \in names)
ExecReached == \E i \in 1..Len(calls) : calls[i][1] = "execv"
DropCalls == {"initgroups", "setgid", "setuid"}
DropFailed == \E i \in 1..Len(calls) : calls[i][1] \in DropCalls /\ ~calls[i][2]

\* the first line of the bytes the parent read
FirstLine(buf) == SubSeq(buf, 1, strcspn(buf, {NL, CR}))

\* C1 (fail closed): pam_sm_authenticate returns PAM_SUCCESS only when no
\* display was found and headless_action is "allow" (and then nothing was
\* spawned), or when a helper was exec'ed after a complete privilege drop,
\* its dialog ended with Allow, the parent's select saw the pipe readable and
\* the line it read is ALLOW.  A failed pipe, fork, initgroups, setgid,
\* setuid, dup2 or execv, an expired or failed select, an empty or
\* non-ALLOW read and an event loop ended by a lock failure never give
\* PAM_SUCCESS.
C1_FailClosed ==
  ret = PAM_SUCCESS =>
    \/ /\ ~Forked /\ parent_fds = {} /\ pipe = <<>>
       /\ has_disp = "no" /\ cfg.loaded /\ cfg.enabled
       /\ cfg.headless_action = "allow"
    \/ /\ child_pc = "reaped" /\ ~killed /\ exit_status = "exit0"
       /\ has_disp = "yes"
       /\ sel = <<1>> /\ nread[1] > 0
       /\ FirstLine(result) = ALLOW_STR
       /\ pipe = << ALLOW_STR \o <<NL>> >>
       /\ \A i \in 1..Len(calls) : calls[i][2]
       /\ calls[Len(calls)] = <<"execv", TRUE>>
       /\ child_stdout = "pipe"
       /\ state_result = "Allow"

C1_Witness ==
  /\ ret = PAM_SUCCESS /\ child_pc = "reaped" /\ state_result = "Allow"
  /\ result = ALLOW_STR \o <<NL>>

\* C5 (privilege-drop order), as claimed: whenever the child has called
\* execv, the identity calls it made before are exactly initgroups, setgid,
\* setuid, in this order, each successful.
C5_DropOrder ==
  ExecReached =>
    CallsOf(DropCalls) = << <<"initgroups", TRUE>>, <<"setgid", TRUE>>, <<"setuid", TRUE>> >>

\* C6 (privilege-drop failure is fatal and silent): once initgroups, setgid
\* or setuid has failed, that call is the child's last, the child has
\* exited with status 1, execv was not called, not one byte is in the pipe,
\* and a parent that reads gets end of file (0 bytes).
C6_DropFailureSilent ==
  DropFailed =>
    /\ ~calls[Len(calls)][2]
    /\ \A i \in 1..(Len(calls) - 1) : calls[i][2]
    /\ child_pc \in {"exited", "reaped"}
    /\ exit_status \in {"exit1"}
    /\ ~ExecReached
    /\ pipe = <<>>
    /\ (nread # <<>> => nread = <<0>>)
    /\ ret \in {NoRet, PAM_AUTH_ERR}

C6_Witness ==
  /\ calls = << <<"initgroups", TRUE>>, <<"setgid", TRUE>>, <<"setuid", FALSE>> >>
  /\ sel = <<1>> /\ nread = <<0>> /\ child_pc = "reaped" /\ ret = PAM_AUTH_ERR

Tokens == { ALLOW_STR \o <<NL>>, DENY_STR \o <<NL>>, TIMEOUT_STR \o <<NL>> }

\* C7 (one-shot channel): over the life of one child at most one write
\* reaches the pipe, and it is ALLOW, DENY or TIMEOUT followed by a newline.
C7_OneShot ==
  /\ Len(pipe) <= 1
  /\ \A i \in 1..Len(pipe) : pipe[i] \in Tokens

C7_Witness ==
  /\ pipe = << TIMEOUT_STR \o <<NL>> >>
  /\ child_pc = "exited" /\ calls[Len(calls)] = <<"execv", TRUE>>

\* C9 (closed channel): when the child has exited without writing a byte,
\* run_helper never returns PAM_SUCCESS; it returns only after the child is
\* reaped and the read end is closed, and returns PAM_AUTH_ERR, with 0 bytes
\* read when select reported the pipe readable.
C9_ClosedChannel ==
  (Forked /\ ~ChildAlive /\ pipe = <<>>) =>
    /\ ret \in {NoRet, PAM_AUTH_ERR}
    /\ (pc = "returned" => /\ ret = PAM_AUTH_ERR
                           /\ child_pc = "reaped"
                           /\ parent_fds = {}
                           /\ (sel = <<1>> => nread = <<0>>)
                           /\ (sel # <<1>> => killed /\ nread = <<>>))

C9_Witness ==
  /\ Forked /\ pipe = <<>> /\ sel = <<1>> /\ ~killed
  /\ pc = "returned" /\ ret = PAM_AUTH_ERR /\ child_pc = "reaped"

\* C10 (headless policy): when the policy is enabled and has_display found no
\* display, "allow" returns PAM_SUCCESS, "deny" returns PAM_AUTH_ERR and any
\* other headless_action returns PAM_IGNORE; no pipe was created and no
\* child forked.
C10_Headless ==
  (cfg.loaded /\ cfg.enabled /\ has_disp = "no") =>
    /\ pc = "returned"
    /\ (cfg.headless_action = "allow" => ret = PAM_SUCCESS)
    /\ (cfg.headless_action = "deny" => ret = PAM_AUTH_ERR)
    /\ (cfg.headless_action \notin {"allow", "deny"} => ret = PAM_IGNORE)
    /\ ~Forked /\ parent_fds = {} /\ pipe = <<>>
    /\ getenv(penv, "WAYLAND_DISPLAY") \in {Unset, ""}

C10_Witness ==
  /\ has_disp = "no" /\ cfg.loaded /\ cfg.headless_action = "allow"
  /\ ret = PAM_SUCCESS /\ ~Forked

\* C8 (strict token parsing), as claimed: run_helper returns PAM_SUCCESS
\* only when the bytes in the pipe are exactly ALLOW followed by a newline.
C8_StrictParse ==
  (Forked /\ ret = PAM_SUCCESS) => PipeContent = ALLOW_STR \o <<NL>>

\* C2 (anti-automation gate), as claimed: an accept delivered to an undecided
\* dialog does nothing when elapsed < min_display_time and decides Allow,
\* with one invocation of the result callback, when elapsed >=
\* min_display_time.
C2_GateClaimed ==
  [][ (last_event' = "accept" /\ WindowLive /\ ~win.result_sent) =>
        /\ (ElapsedMs < win.min_display_time =>
              ~win'.result_sent /\ callbacks' = callbacks)
        /\ (ElapsedMs >= win.min_display_time =>
              win'.result_sent /\ state_result' = "Allow" /\ callbacks' = 1)
    ]_vars

\* C2, amended: an accept delivered to an undecided dialog does nothing when
\* elapsed < min_display_time or when allow_enabled is still false; when
\* allow_enabled is true and elapsed >= min_display_time it decides Allow
\* with one invocation of the result callback; the callback is never invoked
\* a second time.
C2_Gate ==
  /\ [][ (last_event' = "accept" /\ WindowLive /\ ~win.result_sent) =>
           /\ (ElapsedMs < win.min_display_time =>
                 ~win'.result_sent /\ callbacks' = callbacks /\ state_result' = state_result)
           /\ (~win.allow_enabled =>
                 ~win'.result_sent /\ callbacks' = callbacks /\ state_result' = state_result)
           /\ (win.allow_enabled /\ ElapsedMs >= win.min_display_time =>
                 win'.result_sent /\ state_result' = "Allow" /\ callbacks' = 1)
       ]_vars
  /\ [](callbacks <= 1)

C2_Witness ==
  /\ win.created /\ win.min_display_time > 0 /\ win.timeout > 0
  /\ last_event = "accept" /\ win.result_sent
  /\ state_result = "Allow" /\ callbacks = 1
  /\ sent_at[1] - win.start_time >= win.min_display_time

\* the outcome each deciding event stands for
DecisionOf(ev) ==
  CASE ev = "accept" -> "Allow"
    [] ev \in {"decline", "Escape", "close"} -> "Deny"
    [] ev = "tick" -> "Timeout"
    [] OTHER -> "none"

\* C3 (decision latch): the result callback is invoked at most once; the
\* step that sets result_sent invokes it with the outcome of the event
\* handled in that step; once result_sent is set, no accept, decline,
\* Escape, close request or tick changes result_sent, the outcome, or the
\* number of invocations.
C3_Latch ==
  /\ [](callbacks <= 1)
  /\ [][ (win.created /\ ~win.result_sent /\ win'.result_sent) =>
           (callbacks = 0 /\ callbacks' = 1 /\ state_result' = DecisionOf(last_event')) ]_vars
  /\ [][ (win.created /\ win.result_sent) =>
           /\ win'.result_sent
           /\ state_result' = state_result
           /\ callbacks' = callbacks
           /\ sent_at' = sent_at ]_vars

\* a tick handled after a click has decided Allow
C3_Witness ==
  /\ win.created /\ win.result_sent /\ callbacks = 1
  /\ state_result = "Allow" /\ last_event = "tick"

\* C4 (countdown expiry): a dialog with timeout T > 0 that got no user input
\* is never undecided later than T seconds plus one tick interval after its
\* start; when decided, the outcome is Timeout, set by a tick at an elapsed
\* time in [T, T + one tick interval], through one invocation of the result
\* callback; and the helper then writes TIMEOUT and a newline.
C4_Countdown ==
  (win.created /\ win.timeout > 0 /\ ~user_input) =>
    /\ (~win.result_sent => ElapsedMs <= win.timeout * MsPerSec + TickInterval)
    /\ (win.result_sent =>
          /\ state_result = "Timeout" /\ callbacks = 1
          /\ sent_at[1] - win.start_time >= win.timeout * MsPerSec
          /\ sent_at[1] - win.start_time <= win.timeout * MsPerSec + TickInterval
          /\ (child_pc = "running" => last_event = "tick"))
    /\ (child_pc = "exited" => pipe = << TIMEOUT_STR \o <<NL>> >>)

\* the timer was armed late, so the countdown expires after T, and the
\* token is out
C4_Witness ==
  /\ win.created /\ win.timeout = MaxTimeout /\ ~user_input
  /\ child_pc = "exited" /\ pipe = << TIMEOUT_STR \o <<NL>> >>
  /\ sent_at[1] - win.start_time > win.timeout * MsPerSec

\* C11 (disabled policy): when the configuration loaded for the service has
\* enabled = false, pam_sm_authenticate has returned PAM_IGNORE, whatever
\* headless_action and the displays are; has_display was not called (the
\* environment it writes is untouched), no pipe exists and no child was
\* forked.
C11_Disabled ==
  (cfg.loaded /\ ~cfg.enabled) =>
    /\ pc = "returned" /\ ret = PAM_IGNORE
    /\ has_disp = "unknown"
    /\ getenv(penv, "XDG_RUNTIME_DIR") = Unset
    /\ ~Forked /\ parent_fds = {} /\ pipe = <<>>

\* disabled by the service's override, a display in the environment
C11_Witness ==
  /\ cfg.loaded /\ ~cfg.enabled /\ ret = PAM_IGNORE
  /\ getenv(penv, "WAYLAND_DISPLAY") = "wayland-1"
  /\ cfg.headless_action = "password"

\* C13 (no leaked child): whenever run_helper has returned after a
\* successful fork the child is reaped and the parent holds neither pipe
\* descriptor; the child is reaped in one step only, the step of the kill or
\* the waitpid branch in which run_helper returns, and nothing follows the
\* return, so the child is reaped exactly once.
C13_NoLeak ==
  /\ []((Forked /\ pc = "returned") => (child_pc = "reaped" /\ parent_fds = {}))
  /\ [][ (child_pc # "reaped" /\ child_pc' = "reaped") =>
           (pc \in {"kill", "waitpid"} /\ pc' = "returned") ]_vars
  /\ [][ pc = "returned" => UNCHANGED <<pc, ret, child_pc, parent_fds>> ]_vars

\* the read branch: data read, child reaped, descriptors closed
C13_Witness ==
  /\ Forked /\ pc = "returned" /\ child_pc = "reaped" /\ parent_fds = {}
  /\ sel = <<1>> /\ nread # <<0>> /\ ~killed

\* C14 (spawn failure): a failing pipe() or fork() makes run_helper return
\* PAM_SYSTEM_ERR with no child and no pipe descriptor open, and
\* PAM_SYSTEM_ERR is returned in no other case.
C14_SpawnFailure ==
  /\ [][ (pc \in {"pipe", "fork"} /\ pc' = "returned") =>
           /\ ret' = PAM_SYSTEM_ERR
           /\ parent_fds' = {} /\ child_pc' = "none" /\ pipe' = <<>> ]_vars
  /\ [](ret = PAM_SYSTEM_ERR => (~Forked /\ parent_fds = {} /\ has_disp = "yes"))

C14_Witness ==
  /\ pc = "returned" /\ ret = PAM_SYSTEM_ERR /\ ~Forked /\ parent_fds = {}
  /\ has_disp = "yes"

\* C12 (deadline enforcement): select gives up only when cfg.timeout + 5
\* seconds have passed since the wait began with no byte written and the
\* write end still open, and the parent never waits longer; the parent then
\* sends SIGKILL, reaps the child, closes the read end and returns
\* PAM_AUTH_ERR in this order, so a child still running dies of the signal
\* and is never left behind.
C12_Deadline ==
  /\ [][ (pc = "select" /\ sel' = <<0>>) =>
           /\ now = SelectDeadline
           /\ PipeContent = <<>> /\ WriteEndOpen
           /\ pc' = "kill" ]_vars
  /\ [](pc = "select" => now <= SelectDeadline)
  /\ [][ (pc = "kill" /\ pc' # "kill") =>
           /\ killed'
           /\ (ChildAlive => exit_status' = "sigkill")
           /\ child_pc' = "reaped"
           /\ parent_fds' = {}
           /\ pc' = "returned" /\ ret' = PAM_AUTH_ERR ]_vars
  /\ []((sel = <<0>> /\ pc = "returned") =>
          (killed /\ child_pc = "reaped" /\ ret = PAM_AUTH_ERR))

\* the longest deadline runs out on a silent child, which is killed
C12_Witness ==
  /\ cfg.timeout = MaxTimeout /\ now = (MaxTimeout + SelectSlack) * MsPerSec
  /\ sel = <<0>> /\ pc = "returned" /\ ret = PAM_AUTH_ERR
  /\ killed /\ exit_status = "sigkill" /\ child_pc = "reaped" /\ pipe = <<>>

\* C15 (lock rejection), as claimed: once the lock could not be acquired
\* (lock() did not return Success, or 'failed' arrived while Locking) the
\* helper writes no token to the decision channel.
C15_LockRejectionSilent ==
  ErrLockFailed \in errlog => pipe = <<>>

\* C16 (lock release under forced kill), as claimed: when the parent has
\* sent SIGKILL to the helper, the compositor is in the end not locked.
C16_LockReleased ==
  [](killed => <>(comp_lock # "locked"))

C19_SinglePrompt ==
  /\ Cardinality({i \in 1..Len(surfaces) : surfaces[i] = "Prompt"}) <= 1
  /\ \A i \in 1..Len(surfaces) : surfaces[i] = (IF i = 1 THEN "Prompt" ELSE "Cover")
  /\ (first_monitor <=> surfaces = <<>>)
  /\ (use_session_lock /\ lock_supported => (win.created <=> surfaces # <<>>))

\* a monitor that appeared after the lock was acquired got a blank window
C19_Witness ==
  /\ Len(surfaces) = MaxMonitors /\ surfaces[MaxMonitors] = "Cover"
  /\ acquired /\ lock_state = "Locked" /\ last_event = "monitor"

\* C20 (unsupported lock degrades): with the lock asked for and not
\* supported, on_activate logs the warning and creates the confirmation
\* window; no lock instance is created, nothing is asked of the
\* compositor, and no lock failure is reported.  The warning is logged in
\* this case only.
C20_Degrades ==
  /\ (use_session_lock /\ ~lock_supported /\ child_pc # "activate") =>
        /\ WarnNotSupported \in errlog
        /\ win.created
        /\ instance = NoInstance /\ lock_state = "Unlocked" /\ comp_lock = "unlocked"
        /\ surfaces = <<>> /\ ErrLockFailed \notin errlog
  /\ (~use_session_lock => errlog = {})

\* the degraded dialog was accepted and the token is out
C20_Witness ==
  /\ use_session_lock /\ ~lock_supported /\ WarnNotSupported \in errlog
  /\ state_result = "Allow" /\ pipe = << ALLOW_STR \o <<NL>> >>

\* the variables run_helper and the display probe set for the helper
HelperEnvNames == {"WAYLAND_DISPLAY", "XDG_RUNTIME_DIR", "HOME", "USER", "LOGNAME"}

\* execv has replaced the child's image by the helper
Execed == calls # <<>> /\ calls[Len(calls)] = <<"execv", TRUE>>

\* C21 (minimal inherited environment), as claimed: when the child has
\* exec'ed the helper, the only variables set in its environment are
\* WAYLAND_DISPLAY, XDG_RUNTIME_DIR, HOME, USER and LOGNAME, the last three
\* being those of the identity the child dropped to.
C21_MinimalEnv ==
  Execed =>
    /\ \A n \in EnvNames : cenv[n] # Unset => n \in HelperEnvNames
    /\ pw.found /\ cenv["HOME"] = pw.pw_dir
    /\ cenv["USER"] = pw.pw_name /\ cenv["LOGNAME"] = pw.pw_name

\* C22 (parent environment is untouched), as claimed: no step of an
\* authentication attempt changes a variable of the privileged process's
\* environment.
C22_ParentEnvUntouched ==
  [][penv' = penv]_vars

\* C23 (outcome is final), as claimed: once the dialog has latched its
\* outcome, no later step changes the result the helper holds, and the
\* token written is the token of that outcome.
C23_OutcomeFinal ==
  /\ [][ (win.created /\ win.result_sent) => state_result' = state_result ]_vars
  /\ []((win.created /\ win.result_sent /\ pipe # <<>>) =>
          pipe = << println(to_string(state_result)) >>)

\* the transitions of LockState the claim allows
ForwardMoves == { <<"Unlocked", "Locking">>, <<"Locking", "Locked">>,
                  <<"Locking", "Failed">>, <<"Locked", "Unlocked">> }

\* C24 (lock state is monotone), as claimed: every change of
\* SessionLock::state_ is Unlocked -> Locking, Locking -> Locked,
\* Locking -> Failed or Locked -> Unlocked.
C24_Monotone ==
  \A i \in 1..(Len(state_path) - 1) : <<state_path[i], state_path[i + 1]>> \in ForwardMoves

\* C25 (single lock attempt), as claimed: SessionLock::lock() is called at
\* most once in a helper run.
C25_SingleAttempt ==
  lock_calls <= 1

\* C26 (deny is never gated): a decline click, an Escape key press or a
\* close request delivered to an undecided dialog decides Deny in that very
\* step, with one invocation of the result callback and the application
\* told to quit, whatever the elapsed time and whether or not the accept
\* button is enabled.
C26_DenyUngated ==
  [][ (last_event' \in {"decline", "Escape", "close"} /\ WindowLive /\ ~win.result_sent) =>
        /\ win'.result_sent /\ state_result' = "Deny"
        /\ callbacks' = callbacks + 1 /\ quit'
        /\ sent_at' = <<now>> ]_vars

\* a decline click before min_display_time, the accept button still off
C26_Witness ==
  /\ win.created /\ win.result_sent /\ last_event = "decline"
  /\ state_result = "Deny" /\ callbacks = 1
  /\ ~win.allow_enabled /\ sent_at[1] - win.start_time < win.min_display_time

\* C27 (accept_enabled is a one-way latch), as claimed: allow_enabled never
\* returns to false, and whenever it becomes true, at the creation of the
\* window or later, elapsed >= min_display_time holds at that moment.
C27_LatchClaimed ==
  /\ [][ (win.created /\ win.allow_enabled) => (win'.created /\ win'.allow_enabled) ]_vars
  /\ [][ ((~win.created \/ ~win.allow_enabled) /\ win'.created /\ win'.allow_enabled) =>
           now' - win'.start_time >= win'.min_display_time ]_vars

\* C27, amended: allow_enabled never returns to false; a window created
\* with timeout > 0 starts with it false and one created with timeout = 0
\* starts with it true, whatever min_display_time is; after creation it
\* becomes true only in a tick that finds elapsed >= min_display_time.
C27_Latch ==
  /\ [][ (win.created /\ win.allow_enabled) => (win'.created /\ win'.allow_enabled) ]_vars
  /\ [][ (~win.created /\ win'.created) =>
           (win'.allow_enabled <=> ~(win'.timeout > 0)) ]_vars
  /\ [][ (win.created /\ ~win.allow_enabled /\ win'.allow_enabled) =>
           /\ last_event' = "tick" /\ win.timeout > 0
           /\ ElapsedMs >= win.min_display_time
           /\ now' = now /\ win'.start_time = win.start_time ]_vars

\* the tick that enabled the accept button, the default min_display_time
\* having passed
C27_Witness ==
  /\ win.created /\ win.allow_enabled /\ ~win.result_sent /\ last_event = "tick"
  /\ win.timeout > 0 /\ win.min_display_time = DefaultMinDisplayTime
  /\ ElapsedMs >= DefaultMinDisplayTime /\ ElapsedMs < DefaultMinDisplayTime + TickInterval

\* C28 (countdown opt-out): a dialog created with timeout = 0 has no timer
\* source, no tick is ever handled for it, its accept button is enabled
\* from its creation on, its outcome is never Timeout however long it stays
\* open, and the token of such a helper is never TIMEOUT.
C28_OptOut ==
  /\ (win.created /\ win.timeout = 0) =>
        /\ win.timer_id = 0 /\ win.allow_enabled
        /\ last_event # "tick"
        /\ state_result # "Timeout"
  /\ (params.timeout = 0 /\ pipe # <<>>) => pipe # << println(TIMEOUT_STR) >>

\* the dialog without countdown still open and undecided when the clock of
\* the model stops
C28_Witness ==
  /\ win.created /\ win.timeout = 0 /\ ~win.result_sent /\ win.allow_enabled
  /\ now = Horizon /\ win.min_display_time > 0

\* C29 (token ordering), as claimed: whenever a token has been written the
\* dialog exists and has latched its outcome, and the token was written by
\* the step that ends the helper.
C29_TokenOrdering ==
  /\ [](pipe # <<>> => (win.created /\ win.result_sent))
  /\ [][ pipe' # pipe => (child_pc = "print" /\ child_pc' = "exited") ]_vars

\* a template with every %u, %s and %p replaced by the whole name ("%%"
\* stands for a percent sign; any other byte stands for itself)
RECURSIVE Substituted(_, _, _, _)
Substituted(t, usr, svc, proc) ==
  IF t = <<>> THEN <<>>
  ELSE IF Head(t) = "%" /\ Len(t) >= 2 /\ t[2] \in {"u", "s", "p", "%"}
  THEN (IF t[2] = "u" THEN usr ELSE IF t[2] = "s" THEN svc
        ELSE IF t[2] = "p" THEN proc ELSE <<"%">>)
       \o Substituted(SubSeq(t, 3, Len(t)), usr, svc, proc)
  ELSE <<Head(t)>> \o Substituted(Tail(t), usr, svc, proc)

\* C30 (spawn arguments are fully substituted), as claimed: the title,
\* message and secondary strings passed to the helper are the templates
\* with every occurrence of %u, %s and %p replaced by the user, the service
\* and the process name.
C30_Substituted ==
  pc = "pipe" =>
    /\ params.title = Substituted(cfg.title, Chars(user), Chars(service), Chars(ProcessName))
    /\ params.message =
         Substituted(cfg.message, Chars(user), Chars(service), Chars(ProcessName))
    /\ params.secondary =
         Substituted(cfg.secondary, Chars(user), Chars(service), Chars(ProcessName))

\* C31 (opt-out of auto-deny holds end to end), as claimed: with timeout = 0,
\* once the prompt is on the screen and select has not failed, the
\* orchestrator kills the helper or returns only after the user has acted,
\* and what it returns is the user's decision.
C31_OptOutEndToEnd ==
  (cfg.timeout = 0 /\ win.created /\ sel # <<-1>>) =>
    /\ killed => user_input
    /\ pc = "returned" =>
         /\ win.result_sent
         /\ ret = PAM_SUCCESS <=> state_result = "Allow"

\* C32 (the orchestrator always returns), as claimed: after the fork
\* run_helper returns in the end, whatever the child does.
C32_AlwaysReturns == <>(pc = "returned")

\* C33 (ALLOW needs a human accept): Allow is stored only by an accept
\* action that latches the window's result; the ALLOW token is written only
\* with Allow latched by the window; a helper whose event loop ended
\* without a decision of the window writes DENY; and the helper exits with
\* success exactly when its token is ALLOW.
C33_AllowNeedsAccept ==
  /\ [][ (state_result' = "Allow" /\ state_result # "Allow") =>
           (last_event' = "accept" /\ ~win.result_sent /\ win'.result_sent) ]_vars
  /\ []( /\ PipeContent = println(ALLOW_STR) =>
               (win.created /\ win.result_sent /\ state_result = "Allow")
         /\ (pipe # <<>> /\ ~(win.created /\ win.result_sent)) =>
               PipeContent = println(DENY_STR)
         /\ child_pc = "exited" =>
               (exit_status = "exit0" <=> PipeContent = println(ALLOW_STR)) )

\* the helper has printed ALLOW and exited with success after an accept
\* under the session lock
C33_Witness ==
  /\ child_pc = "exited"
  /\ PipeContent = println(ALLOW_STR) /\ exit_status = "exit0"
  /\ win.result_sent /\ acquired

\* C34 (a minimum display time that is not below the timeout): with a
\* timeout T > 0 and min_display_time >= T * 1000 ms the accept button is
\* never enabled and the outcome is never Allow.
C34_NeverAllow ==
  (win.created /\ win.timeout > 0 /\ win.min_display_time >= win.timeout * MsPerSec) =>
    /\ ~win.allow_enabled
    /\ state_result \in {"Deny", "Timeout"}

\* accept was tried with the minimum display time over, on a window whose
\* minimum display time is its timeout, and nothing came of it
C34_Witness ==
  /\ win.created /\ win.timeout > 0
  /\ win.min_display_time >= win.timeout * MsPerSec
  /\ last_event = "accept"
  /\ ElapsedMs >= win.min_display_time
  /\ ~win.result_sent

\* pam_sm_authenticate: the uid whose runtime directory has_display probes
ProbedUid ==
  LET pwn == getpwnam(user)
  IN IF pwn.found THEN pwn.pw_uid ELSE pcred.ruid

\* C35 (consistent target identity), as claimed: the uid the child drops to
\* is the uid whose runtime directory was probed for a display.
C35_SameIdentity ==
  target_uid # <<>> => target_uid[1] = ProbedUid

\* the target identity cannot be resolved: the hint run_helper goes by names
\* a uid without a user-database entry, or there is no hint and the PAM user
\* has no entry
Unresolved ==
  LET sudo_uid   == getenv(penv, "SUDO_UID")
      pkexec_uid == getenv(penv, "PKEXEC_UID")
  IN IF sudo_uid # Unset THEN ~getpwuid(atoi(sudo_uid)).found
     ELSE IF pkexec_uid # Unset THEN ~getpwuid(atoi(pkexec_uid)).found
     ELSE ~getpwnam(user).found

\* C36 (no exec with unresolved identity), as claimed: when the target
\* identity cannot be resolved and the child has exec'ed the helper, the
\* helper holds neither the effective uid, nor the effective gid, nor the
\* supplementary groups of the process that forked it.
C36_NoExecUnresolved ==
  (Unresolved /\ Execed) =>
    /\ cred.euid # pcred.euid
    /\ cred.egid # pcred.egid
    /\ cred.groups # pcred.groups

\* C37 (an early decision still releases the lock), as claimed: when the
\* window decided before the 'locked' signal was handled (state_ still
\* Locking) and the helper has left through the end of main, the compositor
\* does not hold the lock, whenever its acknowledgment came.
C37_EarlyDecisionReleases ==
  (child_pc = "exited" /\ win.created /\ win.result_sent /\ ~acquired) =>
    comp_lock # "locked"

====
